---- MODULE Spec2Model ----
(***************************************************************************)
(* bignumber-utils: the value-processing pipeline (getBigNumber,           *)
(* buildConfig, roundBigNumber, convertBigNumberToType, processValue),     *)
(* the validations, the predicate helpers and the calculations, as a       *)
(* state machine: every action is one call of an exported function on      *)
(* inputs drawn from bounded sets, and records the call and its outcome.   *)
(*                                                                         *)
(* Numbers.  A decimal of the engine (bignumber.js) is a record            *)
(*   [cls, sgn, m, fd]:  cls = "fin" is sgn * m / 10^fd with no trailing   *)
(*   zero in the fraction (the engine strips them), cls = "inf" is         *)
(*   sgn * Infinity, cls = "nan" is NaN.  Zero keeps its sign.             *)
(* JavaScript values.  [t, d, s]: t is the type tag, d the decimal of a    *)
(*   number or of a BigNumber instance, s the text of a string (a sequence *)
(*   of characters) or, for any other value, what String(v) renders.  The  *)
(*   character "x" stands for any character that is no digit, dot or       *)
(*   minus sign; "Infinity" and "NaN" are the words the engine recognises. *)
(* Errors.  [msg, shown, cause, codes]: codes are the error codes          *)
(*   encodeError has appended to the message, in order.                    *)
(***************************************************************************)
EXTENDS Integers, Sequences, FiniteSets, TLC

VARIABLES fn, arg, arg2, list, listAfter, exponentialAt, cfg, prettyConfig, ret, ret2

vars == <<fn, arg, arg2, list, listAfter, exponentialAt, cfg, prettyConfig, ret, ret2>>

(***************************************************************************)
(* Bounds of the model.                                                    *)
(***************************************************************************)
\* the longest string drawn as an input value
MaxStrLen == 3
\* numbers and BigNumber instances are drawn with mantissas 0..MaxMant
MaxMant == 16
\* ... and with at most MaxFrac digits after the point
MaxFrac == 2
\* decimalPlaces are drawn from -1..MaxDp and from the edges of the range
MaxDp == 2
\* arrays of values are drawn with at most MaxValues elements
MaxValues == 3
\* ... and arrays of trades with at most MaxTrades
MaxTrades == 2
\* the digits after the point a division keeps: DECIMAL_PLACES of the engine
\* (20), scaled down to the integers of the checker.  A quotient with more
\* digits is rounded here, earlier than the engine rounds it.
DivisionPlaces == 3

\* BigNumber.config({EXPONENTIAL_AT: 1e+9}), run once when the module loads
EXPONENTIAL_AT == 1000000000

(***************************************************************************)
(* Decimals                                                                *)
(***************************************************************************)
RECURSIVE Pow10(_)
Pow10(k) == IF k = 0 THEN 1 ELSE 10 * Pow10(k - 1)

RECURSIVE Norm(_, _, _)
Norm(sgn, m, fd) ==
  IF fd > 0 /\ m % 10 = 0
    THEN Norm(sgn, m \div 10, fd - 1)
    ELSE [cls |-> "fin", sgn |-> sgn, m |-> m, fd |-> fd]

NaNDec == [cls |-> "nan", sgn |-> 0, m |-> 0, fd |-> 0]
InfDec(sgn) == [cls |-> "inf", sgn |-> sgn, m |-> 0, fd |-> 0]
IntDec(n) == IF n < 0 THEN Norm(-1, -n, 0) ELSE Norm(1, n, 0)

IsZero(d) == d.cls = "fin" /\ d.m = 0

\* the sign of the comparison of two decimals, neither of them NaN:
\* -1, 0 or 1 (compare() of the engine; 0 and -0 are equal)
Cmp(a, b) ==
  LET sa == IF IsZero(a) THEN 0 ELSE a.sgn
      sb == IF IsZero(b) THEN 0 ELSE b.sgn
  IN  IF sa # sb THEN (IF sa < sb THEN -1 ELSE 1)
      ELSE IF sa = 0 THEN 0
      ELSE IF a.cls = "inf" \/ b.cls = "inf"
        THEN (IF a.cls = b.cls THEN 0
              ELSE IF a.cls = "inf" THEN sa ELSE -sa)
      ELSE LET x == a.m * Pow10(b.fd)
               y == b.m * Pow10(a.fd)
           IN  IF x = y THEN 0 ELSE IF x < y THEN -sa ELSE sa

\* the comparison methods: every comparison with NaN is false
isEqualTo(a, b) == a.cls # "nan" /\ b.cls # "nan" /\ Cmp(a, b) = 0
isLessThan(a, b) == a.cls # "nan" /\ b.cls # "nan" /\ Cmp(a, b) = -1
isGreaterThan(a, b) == a.cls # "nan" /\ b.cls # "nan" /\ Cmp(a, b) = 1
isLessThanOrEqualTo(a, b) == a.cls # "nan" /\ b.cls # "nan" /\ Cmp(a, b) # 1

\* x.isInteger(): a finite decimal with no fraction digit
bnIsInteger(d) == d.cls = "fin" /\ d.fd = 0

(***************************************************************************)
(* JavaScript values                                                       *)
(***************************************************************************)
DigitChars == <<"0", "1", "2", "3", "4", "5", "6", "7", "8", "9">>
Digits == {DigitChars[i] : i \in 1..10}
\* the characters input strings are drawn from
Alphabet == {"0", "1", "5", ".", "-", "x"}

DigitVal(c) == (CHOOSE i \in 1..10 : DigitChars[i] = c) - 1

Num(d) == [t |-> "number", d |-> d, s |-> <<>>]
Str(s) == [t |-> "string", d |-> NaNDec, s |-> s]
Bn(d) == [t |-> "bignumber", d |-> d, s |-> <<>>]
\* any other value, with the text String(v) renders
Other(t, s) == [t |-> t, d |-> NaNDec, s |-> s]
Undefined == Other("undefined", <<"x">>)
Bool(b) == Other("boolean", <<IF b THEN "true" ELSE "false">>)

SeqsUpTo(S, n) == UNION {[1..k -> S] : k \in 0..n}

FiniteDecs ==
  {Norm(sgn, m, fd) : sgn \in {1, -1}, m \in 0..MaxMant, fd \in 0..MaxFrac}
Decs == FiniteDecs \cup {InfDec(1), InfDec(-1)}

Strings ==
  SeqsUpTo(Alphabet, MaxStrLen)
    \cup {<<"Infinity">>, <<"-", "Infinity">>, <<"NaN">>, <<"-", "1", ".", "5">>}

\* what is neither a number, a string nor a BigNumber instance: undefined,
\* null, a plain object, a boolean, a Symbol (String() renders it, a template
\* literal does not), an object without a prototype (nothing renders it), an
\* object that only carries _isBigNumber = true, and arrays, which String()
\* renders as their elements joined by commas
Others ==
  {Undefined, Other("null", <<"x">>), Other("object", <<"x">>),
   Bool(TRUE), Bool(FALSE), Other("symbol", <<"x">>),
   Other("nullproto", <<>>), Other("forged", <<"x">>),
   Other("array", <<>>), Other("array", <<"5">>),
   Other("array", <<"1", "x", "5">>)}

Values ==
  {Num(d) : d \in Decs \cup {NaNDec}}
    \cup {Str(s) : s \in Strings}
    \cup {Bn(d) : d \in Decs \cup {NaNDec}}
    \cup Others

\* String(v) throws a TypeError
StringThrows(v) == v.t = "nullproto"
\* `${v}` throws a TypeError
TemplateThrows(v) == v.t \in {"nullproto", "symbol"}

(***************************************************************************)
(* The engine: construction                                                *)
(***************************************************************************)
RECURSIVE DigitsValue(_)
DigitsValue(s) ==
  IF s = <<>> THEN 0
  ELSE 10 * DigitsValue(SubSeq(s, 1, Len(s) - 1)) + DigitVal(s[Len(s)])

Count(s, c) == Cardinality({i \in 1..Len(s) : s[i] = c})

\* isNumeric = /^-?(?:\d+(?:\.\d*)?|\.\d+)(?:e[+-]?\d+)?$/i, on the alphabet
IsNumeric(s) ==
  LET body == IF s # <<>> /\ s[1] = "-" THEN Tail(s) ELSE s
  IN  /\ \A i \in 1..Len(body) : body[i] \in Digits \cup {"."}
      /\ Count(body, ".") <= 1
      /\ \E i \in 1..Len(body) : body[i] \in Digits

\* the decimal a numeric string denotes
NumericValue(s) ==
  LET neg == s[1] = "-"
      body == IF neg THEN Tail(s) ELSE s
      dot == IF Count(body, ".") = 0 THEN 0
             ELSE CHOOSE i \in 1..Len(body) : body[i] = "."
      digs == SelectSeq(body, LAMBDA c : c # ".")
      fd == IF dot = 0 THEN 0 ELSE Len(body) - dot
  IN  Norm(IF neg THEN -1 ELSE 1, DigitsValue(digs), fd)

\* parseNumeric: Infinity, -Infinity and NaN are recognised, anything else
\* is NaN (BigNumber.DEBUG is off: no exception)
ParseNumeric(s) ==
  IF s = <<"Infinity">> THEN InfDec(1)
  ELSE IF s = <<"-", "Infinity">> THEN InfDec(-1)
  ELSE NaNDec

ParseString(s) == IF IsNumeric(s) THEN NumericValue(s) ELSE ParseNumeric(s)

\* the constructor with the fast path for 32-bit integers (v === ~~v) taken by
\* every number: the fraction is dropped
BigNumber_truncatesNumbers(v) ==
  IF v.t = "bignumber" THEN [threw |-> FALSE, d |-> v.d]
  ELSE IF v.t = "forged" THEN [threw |-> FALSE, d |-> NaNDec]
  ELSE IF v.t = "number"
    THEN [threw |-> FALSE,
          d |-> IF v.d.cls = "fin" THEN Norm(v.d.sgn, v.d.m \div Pow10(v.d.fd), 0)
                ELSE v.d]
  ELSE IF StringThrows(v) THEN [threw |-> TRUE, d |-> NaNDec]
  ELSE [threw |-> FALSE, d |-> ParseString(v.s)]

\* BigNumber(v): [threw, d]
BigNumber(v) ==
  IF v.t = "bignumber" THEN [threw |-> FALSE, d |-> v.d]
  ELSE IF v.t = "forged" THEN [threw |-> FALSE, d |-> NaNDec]
  ELSE IF v.t = "number" THEN [threw |-> FALSE, d |-> v.d]
  ELSE IF StringThrows(v) THEN [threw |-> TRUE, d |-> NaNDec]
  ELSE [threw |-> FALSE, d |-> ParseString(v.s)]

\* BigNumber.isBigNumber(v), BigNumber.DEBUG off: v && v._isBigNumber === true
BigNumber_isBigNumber(v) == v.t \in {"bignumber", "forged"}

(***************************************************************************)
(* Errors                                                                  *)
(***************************************************************************)
NoErr == [msg |-> "", shown |-> "", cause |-> "", codes |-> <<>>]
\* an error of the engine or of the runtime: no code
RawError(msg) == [msg |-> msg, shown |-> "", cause |-> "", codes |-> <<>>]

encodeError(e, code) == [e EXCEPT !.codes = Append(@, code)]
isEncodedError(e) == e.codes # <<>>
ErrKind(e) == IF e.codes = <<>> THEN "NONE" ELSE e.codes[Len(e.codes)]

Ok(v) == [ok |-> TRUE, val |-> v, err |-> NoErr]
Throw(e) == [ok |-> FALSE, val |-> Undefined, err |-> e]
NoRet == [ok |-> FALSE, val |-> Undefined, err |-> NoErr]

\* buildInvalidValueErrorMessage without its try/catch: the TypeError of the
\* template literal leaves the builder
buildInvalidValueErrorMessage_noCatch(value, hasError, error) ==
  IF TemplateThrows(value) THEN RawError("Cannot convert a Symbol value to a string")
  ELSE encodeError(
         [msg |-> "BigNumber could not be instantiated with",
          shown |-> "VALUE",
          cause |-> IF hasError THEN error.msg ELSE "",
          codes |-> IF hasError THEN error.codes ELSE <<>>],
         "INVALID_VALUE")

\* buildInvalidValueErrorMessage(value, error?): hasError tells whether the
\* second argument was given
buildInvalidValueErrorMessage(value, hasError, error) ==
  encodeError(
    [msg |-> "BigNumber could not be instantiated with",
     shown |-> IF TemplateThrows(value) THEN "UNKNOWN" ELSE "VALUE",
     cause |-> IF hasError THEN error.msg ELSE "",
     codes |-> IF hasError THEN error.codes ELSE <<>>],
    "INVALID_VALUE")

(***************************************************************************)
(* getBigNumber                                                            *)
(***************************************************************************)
\* the try block: the instance or the constructed decimal, the throw of the
\* encoded error when it is NaN, or the runtime's own throw
getBigNumberTry(value) ==
  IF BigNumber_isBigNumber(value)
    THEN (IF value.t = "forged" THEN Throw(RawError("bn.isNaN is not a function"))
          ELSE IF value.d.cls = "nan"
            THEN Throw(buildInvalidValueErrorMessage(value, FALSE, NoErr))
          ELSE Ok(value))
  ELSE LET c == BigNumber(value)
       IN  IF c.threw
             THEN Throw(RawError("Cannot convert object to primitive value"))
           ELSE IF c.d.cls = "nan"
             THEN Throw(buildInvalidValueErrorMessage(value, FALSE, NoErr))
           ELSE Ok(Bn(c.d))

\* getBigNumber without the isEncodedError test: every caught error is wrapped
getBigNumber_alwaysWraps(value) ==
  LET r == getBigNumberTry(value)
  IN  IF r.ok THEN r
      ELSE Throw(buildInvalidValueErrorMessage(value, TRUE, r.err))

getBigNumber(value) ==
  LET r == getBigNumberTry(value)
  IN  IF r.ok THEN r
      ELSE IF isEncodedError(r.err) THEN r
      ELSE Throw(buildInvalidValueErrorMessage(value, TRUE, r.err))

(***************************************************************************)
(* The engine: rounding and conversions                                    *)
(***************************************************************************)
\* intCheck(n, 0, MAX): n is a primitive number, an integer, in range
IntCheckOk(v) ==
  v.t = "number" /\ v.d.cls = "fin" /\ v.d.fd = 0 /\ (v.d.sgn = 1 \/ v.d.m = 0)

\* whether rounding mode rm (0..8) rounds the quotient q away from zero, for
\* a remainder r out of p (0 < r < p) and the sign sgn
RoundsAway(rm, sgn, q, r, p) ==
  CASE rm = 0 -> TRUE
    [] rm = 1 -> FALSE
    [] rm = 2 -> sgn > 0
    [] rm = 3 -> sgn < 0
    [] rm = 4 -> 2 * r >= p
    [] rm = 5 -> 2 * r > p
    [] rm = 6 -> 2 * r > p \/ (2 * r = p /\ q % 2 = 1)
    [] rm = 7 -> 2 * r > p \/ (2 * r = p /\ sgn > 0)
    [] rm = 8 -> 2 * r > p \/ (2 * r = p /\ sgn < 0)

\* round(x, dp, rm) of the engine: at most dp digits after the point
RoundDec(d, dp, rm) ==
  IF d.cls # "fin" \/ d.fd <= dp THEN d
  ELSE LET p == Pow10(d.fd - dp)
           q == d.m \div p
           r == d.m % p
       IN  Norm(d.sgn, IF RoundsAway(rm, d.sgn, q, r, p) THEN q + 1 ELSE q, dp)

\* x.decimalPlaces(dp, rm): [threw, d]; dp is a JavaScript value
bnDecimalPlaces(d, dp, rm) ==
  IF ~IntCheckOk(dp) THEN [threw |-> TRUE, d |-> NaNDec]
  ELSE [threw |-> FALSE, d |-> RoundDec(d, dp.d.m, rm)]

RECURSIVE NatToChars(_)
NatToChars(n) ==
  IF n < 10 THEN <<DigitChars[n + 1]>>
  ELSE NatToChars(n \div 10) \o <<DigitChars[(n % 10) + 1]>>

RECURSIVE PadLeft(_, _)
PadLeft(s, n) == IF Len(s) >= n THEN s ELSE PadLeft(<<"0">> \o s, n)

\* x.toString(), EXPONENTIAL_AT = 1e9: plain notation; the zero has no sign
bnToString(d) ==
  IF d.cls = "nan" THEN <<"NaN">>
  ELSE IF d.cls = "inf"
    THEN (IF d.sgn < 0 THEN <<"-", "Infinity">> ELSE <<"Infinity">>)
  ELSE LET p == Pow10(d.fd)
           int == NatToChars(d.m \div p)
           frac == IF d.fd = 0 THEN <<>>
                   ELSE <<".">> \o PadLeft(NatToChars(d.m % p), d.fd)
           sign == IF d.sgn < 0 /\ d.m # 0 THEN <<"-">> ELSE <<>>
       IN  sign \o int \o frac

\* x.toNumber(): the number nearest to the decimal, the zero keeping its sign.
\* Every decimal of the model has fewer significant digits than a double
\* holds, so that number denotes the same decimal.
bnToNumber(d) == Num(d)

(***************************************************************************)
(* The engine: arithmetic.  The operands are decimals; the callers         *)
(* construct them from the JavaScript values they are given.               *)
(***************************************************************************)
Max(a, b) == IF a >= b THEN a ELSE b

\* x.plus(y): exact; a zero sum is negative only for -0 + -0
bnPlus(x, y) ==
  IF x.cls = "nan" \/ y.cls = "nan" THEN NaNDec
  ELSE IF x.cls = "inf" /\ y.cls = "inf"
    THEN (IF x.sgn = y.sgn THEN x ELSE NaNDec)
  ELSE IF x.cls = "inf" THEN x
  ELSE IF y.cls = "inf" THEN y
  ELSE LET fd == Max(x.fd, y.fd)
           s == x.sgn * x.m * Pow10(fd - x.fd) + y.sgn * y.m * Pow10(fd - y.fd)
       IN  IF s = 0 THEN Norm(IF x.sgn < 0 /\ y.sgn < 0 THEN -1 ELSE 1, 0, 0)
           ELSE IF s < 0 THEN Norm(-1, -s, fd)
           ELSE Norm(1, s, fd)

\* x.negated(): the sign flipped, that of a zero too
bnNegated(x) == IF x.cls = "nan" THEN x ELSE [x EXCEPT !.sgn = -x.sgn]

\* x.minus(y): exact; x - x is 0
bnMinus(x, y) == bnPlus(x, bnNegated(y))

\* x.times(y): exact; the sign is the product of the signs, for a zero too
bnTimes(x, y) ==
  IF x.cls = "nan" \/ y.cls = "nan" THEN NaNDec
  ELSE IF (x.cls = "inf" /\ IsZero(y)) \/ (IsZero(x) /\ y.cls = "inf") THEN NaNDec
  ELSE IF x.cls = "inf" \/ y.cls = "inf" THEN InfDec(x.sgn * y.sgn)
  ELSE Norm(x.sgn * y.sgn, x.m * y.m, x.fd + y.fd)

\* x.dividedBy(y): div(x, y, DECIMAL_PLACES, ROUNDING_MODE), ROUNDING_MODE
\* being ROUND_HALF_UP (4)
bnDividedBy(x, y) ==
  IF x.cls = "nan" \/ y.cls = "nan" THEN NaNDec
  ELSE IF (x.cls = "inf" /\ y.cls = "inf") \/ (IsZero(x) /\ IsZero(y)) THEN NaNDec
  ELSE IF IsZero(x) \/ y.cls = "inf" THEN Norm(x.sgn * y.sgn, 0, 0)
  ELSE IF IsZero(y) \/ x.cls = "inf" THEN InfDec(x.sgn * y.sgn)
  ELSE LET sgn == x.sgn * y.sgn
           num == x.m * Pow10(y.fd + DivisionPlaces)
           den == y.m * Pow10(x.fd)
           q == num \div den
           r == num % den
       IN  Norm(sgn, IF r # 0 /\ RoundsAway(4, sgn, q, r, den) THEN q + 1 ELSE q,
                DivisionPlaces)

\* the arguments of a static method, each through the constructor
Constructed(args) == [i \in DOMAIN args |-> BigNumber(args[i]).d]
ConstructorThrows(args) == \E i \in DOMAIN args : BigNumber(args[i]).threw

RECURSIVE SumFrom(_, _)
SumFrom(sum, rest) ==
  IF rest = <<>> THEN sum ELSE SumFrom(bnPlus(sum, Head(rest)), Tail(rest))

\* BigNumber.sum(...args), one argument at least: [threw, d]
BigNumber_sum(args) ==
  IF ConstructorThrows(args) THEN [threw |-> TRUE, d |-> NaNDec]
  ELSE LET c == Constructed(args)
       IN  [threw |-> FALSE, d |-> SumFrom(Head(c), Tail(c))]

\* maxOrMin(args, n): n = -1 for the maximum, 1 for the minimum; a NaN
\* replaces whatever was held and is never replaced
RECURSIVE maxOrMinFrom(_, _, _)
maxOrMinFrom(x, rest, n) ==
  IF rest = <<>> THEN x
  ELSE LET y == Head(rest)
           k == IF x.cls = "nan" \/ y.cls = "nan" THEN 2 ELSE Cmp(x, y)
       IN  maxOrMinFrom(IF y.cls = "nan" \/ k = n \/ (k = 0 /\ x.sgn = n)
                          THEN y ELSE x,
                        Tail(rest), n)

maxOrMin(args, n) ==
  IF ConstructorThrows(args) THEN [threw |-> TRUE, d |-> NaNDec]
  ELSE LET c == Constructed(args)
       IN  [threw |-> FALSE, d |-> maxOrMinFrom(Head(c), Tail(c), n)]

BigNumber_max(args) == maxOrMin(args, -1)
BigNumber_min(args) == maxOrMin(args, 1)

(***************************************************************************)
(* Validations                                                             *)
(***************************************************************************)
Zero == IntDec(0)
Hundred == IntDec(100)

\* the outcome of a function that returns nothing
Void == Ok(Undefined)

validateDecimalPlaces(decimalPlaces) ==
  IF \/ decimalPlaces.t # "number"
     \/ isLessThan(decimalPlaces.d, Zero)
     \/ isGreaterThan(decimalPlaces.d, Hundred)
    THEN Throw(encodeError(RawError("The decimalPlaces must be a number ranging 0 - 100"),
                           "INVALID_DECIMAL_PLACES"))
    ELSE Void

\* validatePositiveValue(value, allowZero?): value is a decimal
validatePositiveValue(value, allowZero) ==
  IF allowZero /\ isLessThan(value, Zero)
    THEN Throw(encodeError(RawError("The value must be greater than or equal to 0"),
                           "NEGATIVE_VALUE_NOT_ALLOWED"))
  ELSE IF ~allowZero /\ isLessThanOrEqualTo(value, Zero)
    THEN Throw(encodeError(RawError("The value must be greater than 0"),
                           "NEGATIVE_VALUE_NOT_ALLOWED"))
  ELSE Void

\* the argument of a calculation: an array of items, or any other value
Array(items) == [isArray |-> TRUE, items |-> items, other |-> Undefined]
NotArray(v) == [isArray |-> FALSE, items |-> <<>>, other |-> v]

\* the check accepts whatever is an array; the message of its error renders
\* the value in a template literal
validateValuesArray(values) ==
  IF ~values.isArray
    THEN (IF TemplateThrows(values.other)
            THEN Throw(RawError("Cannot convert a Symbol value to a string"))
          ELSE Throw(encodeError(
                 RawError("Cannot run the calculation on an invalid sequence"),
                 "INVALID_VALUES_ARRAY")))
    ELSE Void

(***************************************************************************)
(* Configuration                                                           *)
(***************************************************************************)
\* a field that is missing or undefined
Absent == "undefined"

RoundingModeNames ==
  {"ROUND_UP", "ROUND_DOWN", "ROUND_CEIL", "ROUND_FLOOR", "ROUND_HALF_UP",
   "ROUND_HALF_DOWN", "ROUND_HALF_EVEN", "ROUND_HALF_CEIL", "ROUND_HALF_FLOOR"}
\* the names with CEIL or FLOOR as their last token
CeilOrFloor(name) ==
  name \in {"ROUND_CEIL", "ROUND_FLOOR", "ROUND_HALF_CEIL", "ROUND_HALF_FLOOR",
            "TOWARDS_CEIL"}
Types == {"string", "number", "bignumber"}

\* buildConfig with the override only where decimalPlaces is not supplied
buildConfig_defaultOnly(config) ==
  LET roundingMode == IF config.roundingMode = Absent THEN "ROUND_HALF_UP"
                      ELSE config.roundingMode
      type == IF config.type = Absent THEN "number" ELSE config.type
      decimalPlaces == IF config.decimalPlaces # Undefined THEN config.decimalPlaces
                       ELSE IF CeilOrFloor(roundingMode) THEN Num(IntDec(0))
                       ELSE Num(IntDec(2))
      v == validateDecimalPlaces(decimalPlaces)
  IN  IF ~v.ok THEN v
      ELSE Ok([decimalPlaces |-> decimalPlaces, roundingMode |-> roundingMode,
               type |-> type])

\* buildConfig with the default rounding mode of the older generation
buildConfig_roundUpDefault(config) ==
  LET roundingMode == IF config.roundingMode = Absent THEN "ROUND_UP"
                      ELSE config.roundingMode
      type == IF config.type = Absent THEN "number" ELSE config.type
      decimalPlaces == IF CeilOrFloor(roundingMode) THEN Num(IntDec(0))
                       ELSE IF config.decimalPlaces = Undefined THEN Num(IntDec(2))
                       ELSE config.decimalPlaces
      v == validateDecimalPlaces(decimalPlaces)
  IN  IF ~v.ok THEN v
      ELSE Ok([decimalPlaces |-> decimalPlaces, roundingMode |-> roundingMode,
               type |-> type])

\* buildConfig(config?): the defaults, decimalPlaces forced to 0 under a
\* ceiling or floor mode, and the validation of the resulting decimalPlaces
buildConfig(config) ==
  LET roundingMode == IF config.roundingMode = Absent THEN "ROUND_HALF_UP"
                      ELSE config.roundingMode
      type == IF config.type = Absent THEN "number" ELSE config.type
      decimalPlaces == IF CeilOrFloor(roundingMode) THEN Num(IntDec(0))
                       ELSE IF config.decimalPlaces = Undefined THEN Num(IntDec(2))
                       ELSE config.decimalPlaces
      v == validateDecimalPlaces(decimalPlaces)
  IN  IF ~v.ok THEN v
      ELSE Ok([decimalPlaces |-> decimalPlaces, roundingMode |-> roundingMode,
               type |-> type])

(***************************************************************************)
(* Rounding and output conversion                                          *)
(***************************************************************************)
\* __ROUNDING_MODES
ROUNDING_MODES ==
  [ROUND_UP |-> 0, ROUND_DOWN |-> 1, ROUND_CEIL |-> 2, ROUND_FLOOR |-> 3,
   ROUND_HALF_UP |-> 4, ROUND_HALF_DOWN |-> 5, ROUND_HALF_EVEN |-> 6,
   ROUND_HALF_CEIL |-> 7, ROUND_HALF_FLOOR |-> 8]

\* the switch with a default case that falls back to ROUND_HALF_UP
getRoundingMode_defaultsToHalfUp(name) ==
  IF name \in DOMAIN ROUNDING_MODES THEN Ok(ROUNDING_MODES[name]) ELSE Ok(4)

\* __getRoundingMode(name): [ok, val (the code), err]
getRoundingMode(name) ==
  CASE name = "ROUND_UP" -> Ok(0)
    [] name = "ROUND_DOWN" -> Ok(1)
    [] name = "ROUND_CEIL" -> Ok(2)
    [] name = "ROUND_FLOOR" -> Ok(3)
    [] name = "ROUND_HALF_UP" -> Ok(4)
    [] name = "ROUND_HALF_DOWN" -> Ok(5)
    [] name = "ROUND_HALF_EVEN" -> Ok(6)
    [] name = "ROUND_HALF_CEIL" -> Ok(7)
    [] name = "ROUND_HALF_FLOOR" -> Ok(8)
    [] OTHER -> Throw(encodeError(RawError("The rounding mode is invalid"),
                                  "INVALID_ROUNDING_MODE"))

\* value.decimalPlaces(decimalPlaces, getRoundingMode(roundingMode)): the
\* argument is evaluated, and may throw, before the engine checks decimalPlaces
roundBigNumber(value, decimalPlaces, roundingMode) ==
  LET rm == getRoundingMode(roundingMode)
  IN  IF ~rm.ok THEN rm
      ELSE LET r == bnDecimalPlaces(value.d, decimalPlaces, rm.val)
           IN  IF r.threw THEN Throw(RawError("[BigNumber Error] Argument not an integer"))
               ELSE Ok(Bn(r.d))

\* the switch with the number case as its default
convertBigNumberToType_defaultsToNumber(bn, type) ==
  CASE type = "string" -> Ok(Str(bnToString(bn.d)))
    [] type = "bignumber" -> Ok(bn)
    [] OTHER -> Ok(bnToNumber(bn.d))

\* the switch on the output type
\* the conversion with the string cut at the point
convertBigNumberToType_integerString(bn, type) ==
  CASE type = "string" -> Ok(Str(bnToString(RoundDec(bn.d, 0, 1))))
    [] type = "number" -> Ok(bnToNumber(bn.d))
    [] type = "bignumber" -> Ok(bn)
    [] OTHER -> Throw(encodeError(RawError("The type is invalid"), "INVALID_TYPE"))

convertBigNumberToType(bn, type) ==
  CASE type = "string" -> Ok(Str(bnToString(bn.d)))
    [] type = "number" -> Ok(bnToNumber(bn.d))
    [] type = "bignumber" -> Ok(bn)
    [] OTHER -> Throw(encodeError(RawError("The type is invalid"), "INVALID_TYPE"))

(***************************************************************************)
(* processValue                                                            *)
(***************************************************************************)
processValue(value, configuration) ==
  LET Process(config, b) ==
        IF ~config.ok THEN config
        ELSE IF ~b.ok THEN b
        ELSE LET Convert(bn) ==
                   IF ~bn.ok THEN bn
                   ELSE convertBigNumberToType(bn.val, config.val.type)
             IN  Convert(roundBigNumber(b.val, config.val.decimalPlaces,
                                        config.val.roundingMode))
  IN  Process(buildConfig(configuration), getBigNumber(value))

(***************************************************************************)
(* Helpers                                                                 *)
(***************************************************************************)
isBigNumber(value) == Ok(Bool(BigNumber_isBigNumber(value)))

isNumber(value) ==
  LET r == getBigNumber(value)
  IN  IF r.ok THEN Ok(Bool(TRUE)) ELSE Ok(Bool(FALSE))

isInteger(value) ==
  LET r == getBigNumber(value)
  IN  IF r.ok THEN Ok(Bool(bnIsInteger(r.val.d))) ELSE Ok(Bool(FALSE))

\* isFloat without its try/catch
isFloat_propagates(value) ==
  LET r == getBigNumber(value)
  IN  IF r.ok THEN Ok(Bool(~bnIsInteger(r.val.d))) ELSE r

\* isFloat reporting only finite values with a fraction
isFloat_finiteOnly(value) ==
  LET r == getBigNumber(value)
  IN  IF r.ok THEN Ok(Bool(r.val.d.cls = "fin" /\ ~bnIsInteger(r.val.d)))
      ELSE Ok(Bool(FALSE))

isFloat(value) ==
  LET r == getBigNumber(value)
  IN  IF r.ok THEN Ok(Bool(~bnIsInteger(r.val.d))) ELSE Ok(Bool(FALSE))

(***************************************************************************)
(* Calculations                                                            *)
(***************************************************************************)
ConstructorError == RawError("Cannot convert object to primitive value")

\* calculateSum rounding every value before it is added
calculateSum_roundsEach(values, config) ==
  LET v == validateValuesArray(values)
      each == [i \in DOMAIN values.items |->
                 processValue(values.items[i], [config EXCEPT !.type = "bignumber"])]
  IN  IF ~v.ok THEN v
      ELSE IF Len(values.items) > 0
        THEN IF \E i \in DOMAIN each : ~each[i].ok
               THEN each[CHOOSE i \in DOMAIN each : ~each[i].ok]
             ELSE processValue(
                    Bn(BigNumber_sum([i \in DOMAIN each |-> each[i].val]).d), config)
      ELSE processValue(Num(Zero), config)

calculateSum(values, config) ==
  LET v == validateValuesArray(values)
      Processed(sum) ==
        IF sum.threw THEN Throw(ConstructorError)
        ELSE processValue(Bn(sum.d), config)
  IN  IF ~v.ok THEN v
      ELSE IF Len(values.items) > 0 THEN Processed(BigNumber_sum(values.items))
      ELSE processValue(Num(Zero), config)

\* calculateMin picking the maximum
calculateMin_picksMax(values, config) ==
  LET v == validateValuesArray(values)
      Processed(min) ==
        IF min.threw THEN Throw(ConstructorError)
        ELSE processValue(Bn(min.d), config)
  IN  IF ~v.ok THEN v
      ELSE IF Len(values.items) > 0 THEN Processed(BigNumber_max(values.items))
      ELSE processValue(Num(Zero), config)

calculateMin(values, config) ==
  LET v == validateValuesArray(values)
      Processed(min) ==
        IF min.threw THEN Throw(ConstructorError)
        ELSE processValue(Bn(min.d), config)
  IN  IF ~v.ok THEN v
      ELSE IF Len(values.items) > 0 THEN Processed(BigNumber_min(values.items))
      ELSE processValue(Num(Zero), config)

calculateMax(values, config) ==
  LET v == validateValuesArray(values)
      Processed(max) ==
        IF max.threw THEN Throw(ConstructorError)
        ELSE processValue(Bn(max.d), config)
  IN  IF ~v.ok THEN v
      ELSE IF Len(values.items) > 0 THEN Processed(BigNumber_max(values.items))
      ELSE processValue(Num(Zero), config)

\* calculateMean dividing the sum after it was rounded
calculateMean_roundsSumFirst(values, config) ==
  LET v == validateValuesArray(values)
  IN  IF ~v.ok THEN v
      ELSE IF Len(values.items) > 0
        THEN LET sum == BigNumber_sum(values.items)
             IN  IF sum.threw THEN Throw(ConstructorError)
                 ELSE LET rounded == processValue(Bn(sum.d),
                                                  [config EXCEPT !.type = "bignumber"])
                      IN  IF ~rounded.ok THEN rounded
                          ELSE processValue(
                                 Bn(bnDividedBy(rounded.val.d,
                                                IntDec(Len(values.items)))), config)
      ELSE processValue(Num(Zero), config)

calculateMean(values, config) ==
  LET v == validateValuesArray(values)
      Processed(sum) ==
        IF sum.threw THEN Throw(ConstructorError)
        ELSE processValue(
               Bn(bnDividedBy(sum.d, IntDec(Len(values.items)))), config)
  IN  IF ~v.ok THEN v
      ELSE IF Len(values.items) > 0 THEN Processed(BigNumber_sum(values.items))
      ELSE processValue(Num(Zero), config)

\* sortBigNumbers(direction)(a, b): -1, 0 or 1
sortBigNumbers(direction, a, b) ==
  IF isLessThan(a, b) THEN (IF direction = "asc" THEN -1 ELSE 1)
  ELSE IF isGreaterThan(a, b) THEN (IF direction = "asc" THEN 1 ELSE -1)
  ELSE 0

\* Array.prototype.sort with that comparator: stable
RECURSIVE Insert(_, _, _)
Insert(sorted, x, direction) ==
  IF sorted = <<>> THEN <<x>>
  ELSE IF sortBigNumbers(direction, x, Head(sorted)) < 0 THEN <<x>> \o sorted
  ELSE <<Head(sorted)>> \o Insert(Tail(sorted), x, direction)

RECURSIVE Sort(_, _)
Sort(s, direction) ==
  IF s = <<>> THEN <<>>
  ELSE Insert(Sort(SubSeq(s, 1, Len(s) - 1), direction), s[Len(s)], direction)

\* values.map(getBigNumber): the decimals, or the throw of the first element
\* that getBigNumber rejects
MapGetBigNumber(items) ==
  LET Mapped(each) ==
        IF \E i \in DOMAIN each : ~each[i].ok
          THEN each[CHOOSE i \in DOMAIN each :
                      ~each[i].ok /\ \A j \in 1..(i - 1) : each[j].ok]
        ELSE Ok([i \in DOMAIN each |-> each[i].val.d])
  IN  Mapped([i \in DOMAIN items |-> getBigNumber(items[i])])

\* values.map(getBigNumber).sort(...) ordering the caller's array itself
medianArrays_inPlace(items) ==
  LET Sorted(mapped) ==
        [values   |-> IF ~mapped.ok THEN items
                      ELSE [i \in DOMAIN items |-> Bn(Sort(mapped.val, "asc")[i])],
         bnValues |-> IF ~mapped.ok THEN mapped ELSE Ok(Sort(mapped.val, "asc"))]
  IN  Sorted(MapGetBigNumber(items))

\* values.map(getBigNumber).sort(sortBigNumbers('asc')): map builds a new
\* array, sort orders its receiver in place; the two arrays after it
medianArrays(items) ==
  LET Sorted(mapped) ==
        [values   |-> items,
         bnValues |-> IF ~mapped.ok THEN mapped ELSE Ok(Sort(mapped.val, "asc"))]
  IN  Sorted(MapGetBigNumber(items))

\* calculateMedian without the sort: the middle of the values as given
calculateMedian_unsorted(values, config) ==
  LET v == validateValuesArray(values)
      half == Len(values.items) \div 2
      Middle(bnValues) ==
        IF Len(values.items) % 2 # 0 THEN bnValues[half + 1]
        ELSE bnDividedBy(bnPlus(bnValues[half], bnValues[half + 1]), IntDec(2))
      Processed(mapped) ==
        IF ~mapped.ok THEN mapped
        ELSE processValue(Bn(Middle(mapped.val)), config)
  IN  IF ~v.ok THEN v
      ELSE IF Len(values.items) > 0 THEN Processed(MapGetBigNumber(values.items))
      ELSE processValue(Num(Zero), config)

calculateMedian(values, config) ==
  LET v == validateValuesArray(values)
      half == Len(values.items) \div 2
      Middle(bnValues) ==
        IF Len(values.items) % 2 # 0 THEN bnValues[half + 1]
        ELSE bnDividedBy(bnPlus(bnValues[half], bnValues[half + 1]), IntDec(2))
      Processed(bnValues) ==
        IF ~bnValues.ok THEN bnValues
        ELSE processValue(Bn(Middle(bnValues.val)), config)
  IN  IF ~v.ok THEN v
      ELSE IF Len(values.items) > 0
        THEN Processed(medianArrays(values.items).bnValues)
      ELSE processValue(Num(Zero), config)

\* the forEach over the trades, each a pair <<price, amount>>: the products
\* and the total of the amounts, or the throw of the first trade that fails
RECURSIVE EachTrade(_, _, _)
EachTrade(trades, priceTimesShares, totalShares) ==
  LET Pushed(price, amount) ==
        IF ~price.ok THEN price
        ELSE IF amount.threw THEN Throw(ConstructorError)
        ELSE EachTrade(Tail(trades),
                       Append(priceTimesShares, Bn(bnTimes(price.val.d, amount.d))),
                       bnPlus(totalShares, amount.d))
  IN  IF trades = <<>>
        THEN Ok([priceTimesShares |-> priceTimesShares, totalShares |-> totalShares])
      ELSE Pushed(getBigNumber(Head(trades)[1]), BigNumber(Head(trades)[2]))

\* calculateWeightedEntry dividing by the number of trades instead of the
\* total of the amounts
calculateWeightedEntry_perTrade(trades, config) ==
  LET v == validateValuesArray(trades)
      Processed(each) ==
        IF ~each.ok THEN each
        ELSE processValue(
               Bn(bnDividedBy(BigNumber_sum(each.val.priceTimesShares).d,
                              IntDec(Len(trades.items)))),
               config)
  IN  IF ~v.ok THEN v
      ELSE IF Len(trades.items) > 0
        THEN Processed(EachTrade(trades.items, <<>>, getBigNumber(Num(Zero)).val.d))
      ELSE processValue(Num(Zero), config)

\* calculateWeightedEntry requiring the total of the amounts to be positive
calculateWeightedEntry_positiveOnly(trades, config) ==
  LET v == validateValuesArray(trades)
      Processed(each) ==
        IF ~each.ok THEN each
        ELSE IF ~validatePositiveValue(each.val.totalShares, FALSE).ok
          THEN validatePositiveValue(each.val.totalShares, FALSE)
        ELSE processValue(
               Bn(bnDividedBy(BigNumber_sum(each.val.priceTimesShares).d,
                              each.val.totalShares)),
               config)
  IN  IF ~v.ok THEN v
      ELSE IF Len(trades.items) > 0
        THEN Processed(EachTrade(trades.items, <<>>, getBigNumber(Num(Zero)).val.d))
      ELSE processValue(Num(Zero), config)

calculateWeightedEntry(trades, config) ==
  LET v == validateValuesArray(trades)
      Processed(each) ==
        IF ~each.ok THEN each
        ELSE processValue(
               Bn(bnDividedBy(BigNumber_sum(each.val.priceTimesShares).d,
                              each.val.totalShares)),
               config)
  IN  IF ~v.ok THEN v
      ELSE IF Len(trades.items) > 0
        THEN Processed(EachTrade(trades.items, <<>>, getBigNumber(Num(Zero)).val.d))
      ELSE processValue(Num(Zero), config)

(***************************************************************************)
(* Percentage and financial calculations                                   *)
(***************************************************************************)
\* calculatePercentageChange without the floor of the decrease at -100
calculatePercentageChange_noFloor(oldValue, newValue, config) ==
  LET Given(oldValueBN, newValueBN) ==
        IF ~oldValueBN.ok THEN oldValueBN
        ELSE IF ~newValueBN.ok THEN newValueBN
        ELSE LET o == oldValueBN.val.d
                 n == newValueBN.val.d
                 v == validatePositiveValue(o, FALSE)
                 change ==
                   IF isGreaterThan(n, o)
                     THEN bnTimes(bnDividedBy(bnMinus(n, o), o), IntDec(100))
                   ELSE IF isGreaterThan(o, n)
                     THEN bnNegated(bnTimes(bnDividedBy(bnMinus(o, n), o), IntDec(100)))
                   ELSE getBigNumber(Num(Zero)).val.d
             IN  IF ~v.ok THEN v ELSE processValue(Bn(change), config)
  IN  Given(getBigNumber(oldValue), getBigNumber(newValue))

\* calculatePercentageChange resolving the configuration before anything else
calculatePercentageChange_configFirst(oldValue, newValue, config) ==
  LET Given(oldValueBN, newValueBN) ==
        IF ~buildConfig(config).ok THEN buildConfig(config)
        ELSE IF ~oldValueBN.ok THEN oldValueBN
        ELSE IF ~newValueBN.ok THEN newValueBN
        ELSE LET o == oldValueBN.val.d
                 n == newValueBN.val.d
                 v == validatePositiveValue(o, FALSE)
                 change ==
                   IF isGreaterThan(n, o)
                     THEN bnTimes(bnDividedBy(bnMinus(n, o), o), IntDec(100))
                   ELSE IF isGreaterThan(o, n)
                     THEN (IF isGreaterThan(n, Zero)
                             THEN bnNegated(
                                    bnTimes(bnDividedBy(bnMinus(o, n), o), IntDec(100)))
                           ELSE getBigNumber(Num(IntDec(-100))).val.d)
                   ELSE getBigNumber(Num(Zero)).val.d
             IN  IF ~v.ok THEN v ELSE processValue(Bn(change), config)
  IN  Given(getBigNumber(oldValue), getBigNumber(newValue))

\* calculatePercentageChange returning the size of a decrease without its sign
calculatePercentageChange_unsigned(oldValue, newValue, config) ==
  LET Given(oldValueBN, newValueBN) ==
        IF ~oldValueBN.ok THEN oldValueBN
        ELSE IF ~newValueBN.ok THEN newValueBN
        ELSE LET o == oldValueBN.val.d
                 n == newValueBN.val.d
                 v == validatePositiveValue(o, FALSE)
                 change ==
                   IF isGreaterThan(n, o)
                     THEN bnTimes(bnDividedBy(bnMinus(n, o), o), IntDec(100))
                   ELSE IF isGreaterThan(o, n)
                     THEN (IF isGreaterThan(n, Zero)
                             THEN bnTimes(bnDividedBy(bnMinus(o, n), o), IntDec(100))
                           ELSE getBigNumber(Num(IntDec(-100))).val.d)
                   ELSE getBigNumber(Num(Zero)).val.d
             IN  IF ~v.ok THEN v ELSE processValue(Bn(change), config)
  IN  Given(getBigNumber(oldValue), getBigNumber(newValue))

calculatePercentageChange(oldValue, newValue, config) ==
  LET Given(oldValueBN, newValueBN) ==
        IF ~oldValueBN.ok THEN oldValueBN
        ELSE IF ~newValueBN.ok THEN newValueBN
        ELSE LET o == oldValueBN.val.d
                 n == newValueBN.val.d
                 v == validatePositiveValue(o, FALSE)
                 change ==
                   IF isGreaterThan(n, o)
                     THEN bnTimes(bnDividedBy(bnMinus(n, o), o), IntDec(100))
                   ELSE IF isGreaterThan(o, n)
                     THEN (IF isGreaterThan(n, Zero)
                             THEN bnNegated(
                                    bnTimes(bnDividedBy(bnMinus(o, n), o), IntDec(100)))
                           ELSE getBigNumber(Num(IntDec(-100))).val.d)
                   ELSE getBigNumber(Num(Zero)).val.d
             IN  IF ~v.ok THEN v ELSE processValue(Bn(change), config)
  IN  Given(getBigNumber(oldValue), getBigNumber(newValue))

\* adjustByPercentage without the floor of the decrease at -100 percent
adjustByPercentage_noFloor(value, percentage, config) ==
  LET Given(valueBN, percentageBN) ==
        IF ~valueBN.ok THEN valueBN
        ELSE IF ~percentageBN.ok THEN percentageBN
        ELSE LET x == valueBN.val.d
                 pc == percentageBN.val.d
                 v == validatePositiveValue(x, FALSE)
                 adjusted ==
                   IF isGreaterThan(pc, Zero) \/ isLessThan(pc, Zero)
                     THEN bnTimes(bnPlus(bnDividedBy(pc, IntDec(100)), IntDec(1)), x)
                   ELSE x
             IN  IF ~v.ok THEN v ELSE processValue(Bn(adjusted), config)
  IN  Given(getBigNumber(value), getBigNumber(percentage))

adjustByPercentage(value, percentage, config) ==
  LET Given(valueBN, percentageBN) ==
        IF ~valueBN.ok THEN valueBN
        ELSE IF ~percentageBN.ok THEN percentageBN
        ELSE LET x == valueBN.val.d
                 pc == percentageBN.val.d
                 v == validatePositiveValue(x, FALSE)
                 adjusted ==
                   IF isGreaterThan(pc, Zero)
                     THEN bnTimes(bnPlus(bnDividedBy(pc, IntDec(100)), IntDec(1)), x)
                   ELSE IF isLessThan(pc, Zero)
                     THEN (IF isGreaterThan(pc, IntDec(-100))
                             THEN bnTimes(
                                    bnTimes(
                                      bnMinus(bnDividedBy(bnTimes(pc, IntDec(-1)),
                                                          IntDec(100)),
                                              IntDec(1)),
                                      x),
                                    IntDec(-1))
                           ELSE getBigNumber(Num(Zero)).val.d)
                   ELSE x
             IN  IF ~v.ok THEN v ELSE processValue(Bn(adjusted), config)
  IN  Given(getBigNumber(value), getBigNumber(percentage))

\* calculatePercentageRepresentation with the result capped at 100
calculatePercentageRepresentation_clamped(value, total, config) ==
  LET Given(valueBN, totalBN) ==
        IF ~valueBN.ok THEN valueBN
        ELSE IF ~totalBN.ok THEN totalBN
        ELSE IF ~validatePositiveValue(valueBN.val.d, FALSE).ok
          THEN validatePositiveValue(valueBN.val.d, FALSE)
        ELSE IF ~validatePositiveValue(totalBN.val.d, FALSE).ok
          THEN validatePositiveValue(totalBN.val.d, FALSE)
        ELSE LET r == bnDividedBy(bnTimes(valueBN.val.d, IntDec(100)), totalBN.val.d)
             IN  processValue(Bn(IF isGreaterThan(r, IntDec(100)) THEN IntDec(100) ELSE r),
                              config)
  IN  Given(getBigNumber(value), getBigNumber(total))

calculatePercentageRepresentation(value, total, config) ==
  LET Given(valueBN, totalBN) ==
        IF ~valueBN.ok THEN valueBN
        ELSE IF ~totalBN.ok THEN totalBN
        ELSE IF ~validatePositiveValue(valueBN.val.d, FALSE).ok
          THEN validatePositiveValue(valueBN.val.d, FALSE)
        ELSE IF ~validatePositiveValue(totalBN.val.d, FALSE).ok
          THEN validatePositiveValue(totalBN.val.d, FALSE)
        ELSE processValue(
               Bn(bnDividedBy(bnTimes(valueBN.val.d, IntDec(100)), totalBN.val.d)),
               config)
  IN  Given(getBigNumber(value), getBigNumber(total))

\* calculateExchange with the operands of the division swapped
calculateExchange_swapped(value, rate, config) ==
  LET Given(valueBN, rateBN) ==
        IF ~valueBN.ok THEN valueBN
        ELSE IF ~rateBN.ok THEN rateBN
        ELSE IF ~validatePositiveValue(valueBN.val.d, FALSE).ok
          THEN validatePositiveValue(valueBN.val.d, FALSE)
        ELSE IF ~validatePositiveValue(rateBN.val.d, FALSE).ok
          THEN validatePositiveValue(rateBN.val.d, FALSE)
        ELSE processValue(Bn(bnDividedBy(rateBN.val.d, valueBN.val.d)), config)
  IN  Given(getBigNumber(value), getBigNumber(rate))

calculateExchange(value, rate, config) ==
  LET Given(valueBN, rateBN) ==
        IF ~valueBN.ok THEN valueBN
        ELSE IF ~rateBN.ok THEN rateBN
        ELSE IF ~validatePositiveValue(valueBN.val.d, FALSE).ok
          THEN validatePositiveValue(valueBN.val.d, FALSE)
        ELSE IF ~validatePositiveValue(rateBN.val.d, FALSE).ok
          THEN validatePositiveValue(rateBN.val.d, FALSE)
        ELSE processValue(Bn(bnDividedBy(valueBN.val.d, rateBN.val.d)), config)
  IN  Given(getBigNumber(value), getBigNumber(rate))

\* calculateExchangeFee validating the fee without allowZero
calculateExchangeFee_rejectsZero(value, feePercentage, config) ==
  LET Given(valueBN, feePercentageBN) ==
        IF ~valueBN.ok THEN valueBN
        ELSE IF ~feePercentageBN.ok THEN feePercentageBN
        ELSE IF ~validatePositiveValue(valueBN.val.d, FALSE).ok
          THEN validatePositiveValue(valueBN.val.d, FALSE)
        ELSE IF ~validatePositiveValue(feePercentageBN.val.d, FALSE).ok
          THEN validatePositiveValue(feePercentageBN.val.d, FALSE)
        ELSE processValue(
               Bn(bnDividedBy(bnTimes(feePercentageBN.val.d, BigNumber(value).d),
                              IntDec(100))),
               config)
  IN  Given(getBigNumber(value), getBigNumber(feePercentage))

\* the product is taken with value as it was given, through the constructor
calculateExchangeFee(value, feePercentage, config) ==
  LET Given(valueBN, feePercentageBN) ==
        IF ~valueBN.ok THEN valueBN
        ELSE IF ~feePercentageBN.ok THEN feePercentageBN
        ELSE IF ~validatePositiveValue(valueBN.val.d, FALSE).ok
          THEN validatePositiveValue(valueBN.val.d, FALSE)
        ELSE IF ~validatePositiveValue(feePercentageBN.val.d, TRUE).ok
          THEN validatePositiveValue(feePercentageBN.val.d, TRUE)
        ELSE processValue(
               Bn(bnDividedBy(bnTimes(feePercentageBN.val.d, BigNumber(value).d),
                              IntDec(100))),
               config)
  IN  Given(getBigNumber(value), getBigNumber(feePercentage))

(***************************************************************************)
(* Formatting                                                              *)
(***************************************************************************)
\* the format argument: given is what is passed (undefined, null or an
\* object), the fields are those of the object, Undefined when not set
NoFormat ==
  [given |-> "undefined", prefix |-> Undefined, decimalSeparator |-> Undefined,
   groupSeparator |-> Undefined, groupSize |-> Undefined,
   secondaryGroupSize |-> Undefined, fractionGroupSeparator |-> Undefined,
   fractionGroupSize |-> Undefined, suffix |-> Undefined]
EmptyFormat == [NoFormat EXCEPT !.given = "object"]

\* buildFormatConfig(config?): every field defaulted on its own, ?? taking
\* the default for null and undefined
buildFormatConfig(config) ==
  LET Field(v, default) ==
        IF config.given # "object" \/ v.t \in {"undefined", "null"} THEN default
        ELSE v
  IN  [prefix |-> Field(config.prefix, Str(<<>>)),
       decimalSeparator |-> Field(config.decimalSeparator, Str(<<".">>)),
       groupSeparator |-> Field(config.groupSeparator, Str(<<",">>)),
       groupSize |-> Field(config.groupSize, Num(IntDec(3))),
       secondaryGroupSize |-> Field(config.secondaryGroupSize, Num(IntDec(0))),
       fractionGroupSeparator |-> Field(config.fractionGroupSeparator, Str(<<" ">>)),
       fractionGroupSize |-> Field(config.fractionGroupSize, Num(IntDec(0))),
       suffix |-> Field(config.suffix, Str(<<>>))]

\* v || '' in a string concatenation: the text of a string, of a number that
\* is not 0 nor NaN; the text of a Symbol stands for the throw of the
\* runtime when one is concatenated
TextOf(v) ==
  IF v.t = "string" THEN v.s
  ELSE IF v.t = "number"
    THEN (IF v.d.cls = "nan" \/ IsZero(v.d) THEN <<>> ELSE bnToString(v.d))
  ELSE IF v.t = "symbol" THEN <<"Symbol()">>
  ELSE <<>>
\* +v for a size: the sizes of the model are naturals (the runtime throws
\* on a Symbol, which toFormat tests before)
SizeOf(v) == IF v.t = "number" /\ v.d.cls = "fin" THEN v.d.m \div Pow10(v.d.fd) ELSE 0

\* the groups of g digits of s from position i (0-based) up to len, each
\* after a separator
RECURSIVE JoinGroups(_, _, _, _, _)
JoinGroups(s, i, len, g, sep) ==
  IF i >= len THEN <<>>
  ELSE sep \o SubSeq(s, i + 1, i + g) \o JoinGroups(s, i + g, len, g, sep)

\* the integer part: groups of groupSize digits, or with a secondary size the
\* last groupSize digits and groups of the secondary size before them
GroupInteger(intPart, isNeg, groupSize, secondaryGroupSize, sep) ==
  LET intDigits == IF isNeg THEN Tail(intPart) ELSE intPart
      g1 == IF secondaryGroupSize # 0 THEN secondaryGroupSize ELSE groupSize
      g2 == IF secondaryGroupSize # 0 THEN groupSize ELSE 0
      len == Len(intDigits) - g2
      i == IF len % g1 = 0 THEN g1 ELSE len % g1
  IN  IF g1 > 0 /\ len > 0
        THEN (IF isNeg THEN <<"-">> ELSE <<>>)
               \o SubSeq(intDigits, 1, i) \o JoinGroups(intDigits, i, len, g1, sep)
               \o (IF g2 > 0 THEN sep \o SubSeq(intDigits, len + 1, Len(intDigits))
                   ELSE <<>>)
      ELSE intPart

\* fractionPart.replace(/\d{g}\B/g, '$&' + separator): a separator after
\* every g digits that more digits follow
RECURSIVE GroupFraction(_, _, _)
GroupFraction(fractionPart, g, sep) ==
  IF g <= 0 \/ Len(fractionPart) <= g THEN fractionPart
  ELSE SubSeq(fractionPart, 1, g) \o sep
         \o GroupFraction(SubSeq(fractionPart, g + 1, Len(fractionPart)), g, sep)

\* x.toFormat(format) of the engine, format an object: toFixed() of x, the
\* integer part grouped, the fraction grouped, between prefix and suffix.
\* What is not finite is not grouped.  [ok, val (the string), err]
toFormat(x, format) ==
  LET str == bnToString(x)
      dot == IF Count(str, ".") = 0 THEN 0
             ELSE CHOOSE i \in 1..Len(str) : str[i] = "."
      intPart == IF dot = 0 THEN str ELSE SubSeq(str, 1, dot - 1)
      fractionPart == IF dot = 0 THEN <<>> ELSE SubSeq(str, dot + 1, Len(str))
      Fraction(g2) ==
        IF g2 # 0
          THEN GroupFraction(fractionPart, g2, TextOf(format.fractionGroupSeparator))
                 \o (IF format.fractionGroupSeparator.t = "symbol"
                       THEN <<"Symbol()">> ELSE <<>>)
        ELSE fractionPart
      body ==
        IF x.cls # "fin" THEN str
        ELSE GroupInteger(intPart, x.sgn < 0, SizeOf(format.groupSize),
                          SizeOf(format.secondaryGroupSize),
                          TextOf(format.groupSeparator))
               \o (IF fractionPart # <<>>
                     THEN TextOf(format.decimalSeparator)
                            \o Fraction(SizeOf(format.fractionGroupSize))
                   ELSE <<>>)
      Formatted(text) ==
        IF \E i \in DOMAIN text : text[i] = "Symbol()"
          THEN Throw(RawError("Cannot convert a Symbol value to a string"))
        ELSE Ok(Str(text))
  IN  IF x.cls = "fin"
           /\ (\/ format.groupSize.t = "symbol"
               \/ format.secondaryGroupSize.t = "symbol"
               \/ (fractionPart # <<>> /\ format.fractionGroupSize.t = "symbol"))
        THEN Throw(RawError("Cannot convert a Symbol value to a number"))
      ELSE Formatted(TextOf(format.prefix) \o body \o TextOf(format.suffix))

\* the second argument of prettifyValue: undefined, null, or an object with
\* its processing and its format
PrettifyConfig(given, processing, format) ==
  [given |-> given, processing |-> processing, format |-> format]

\* prettifyValue passing the processing configuration as it is given
prettifyValue_keepsType(value, config) ==
  LET Pretty(bn) ==
        IF ~bn.ok THEN bn
        ELSE IF bn.val.t # "bignumber"
          THEN Throw(RawError("toFormat is not a function"))
        ELSE toFormat(bn.val.d, buildFormatConfig(config.format))
      Caught(r) ==
        IF r.ok \/ isEncodedError(r.err) THEN r
        ELSE Throw(encodeError(RawError(r.err.msg), "INVALID_BIGNUMBER_FORMAT"))
  IN  IF config.given = "null"
        THEN Caught(Throw(RawError("Cannot read properties of null")))
      ELSE Caught(Pretty(processValue(value, config.processing)))

\* prettifyValue rethrowing whatever it catches
prettifyValue_rethrowsAll(value, config) ==
  LET Pretty(bn) ==
        IF ~bn.ok THEN bn
        ELSE toFormat(bn.val.d, buildFormatConfig(config.format))
  IN  IF config.given = "null" THEN Throw(RawError("Cannot read properties of null"))
      ELSE Pretty(processValue(value,
                               [config.processing EXCEPT !.kind = "object",
                                                         !.type = "bignumber"]))

\* prettifyValue(value, config = {}): the try block and its catch
prettifyValue(value, config) ==
  LET Pretty(bn) ==
        IF ~bn.ok THEN bn
        ELSE toFormat(bn.val.d, buildFormatConfig(config.format))
      Caught(r) ==
        IF r.ok \/ isEncodedError(r.err) THEN r
        ELSE Throw(encodeError(RawError(r.err.msg), "INVALID_BIGNUMBER_FORMAT"))
  IN  IF config.given = "null"
        THEN Caught(Throw(RawError("Cannot read properties of null")))
      ELSE Caught(Pretty(processValue(value,
                                      [config.processing EXCEPT !.kind = "object",
                                                                !.type = "bignumber"])))

(***************************************************************************)
(* The calls                                                               *)
(***************************************************************************)
\* a configuration argument: undefined (or none), null, or an object whose
\* fields may each be missing
NoCfg == [kind |-> "undefined", decimalPlaces |-> Undefined,
          roundingMode |-> Absent, type |-> Absent]
Cfg(dp, rm, ty) == [kind |-> "object", decimalPlaces |-> dp,
                    roundingMode |-> rm, type |-> ty]

DpInputs ==
  {Undefined, Str(<<"1">>), Num(NaNDec), Num(InfDec(1)), Num(InfDec(-1)),
   Num(IntDec(100)), Num(IntDec(101)), Num(Norm(1, 15, 1)), Num(Norm(-1, 1, 3))}
    \cup {Num(IntDec(k)) : k \in -1..MaxDp}
RoundingModeInputs == RoundingModeNames \cup {Absent, "invalid", "TOWARDS_CEIL"}
TypeInputs == Types \cup {Absent, "invalid"}
CfgInputs ==
  {NoCfg, [NoCfg EXCEPT !.kind = "null"]}
    \cup {Cfg(dp, rm, ty) : dp \in DpInputs, rm \in RoundingModeInputs,
                            ty \in TypeInputs}

BnInputs == {Bn(d) : d \in Decs \cup {NaNDec}}

\* the elements arrays of values are drawn from
ListValues ==
  {Num(IntDec(1)), Num(Norm(1, 15, 1)), Num(IntDec(-2)), Num(NaNDec),
   Str(<<"5">>), Bn(Norm(1, 25, 1)), Num(Norm(-1, 0, 0)),
   Other("nullproto", <<>>)}
\* what is passed in place of an array
NonArrays ==
  {NotArray(v) : v \in {Undefined, Other("null", <<"x">>), Other("object", <<"x">>),
                        Other("symbol", <<"x">>), Str(<<"5">>), Num(IntDec(5))}}
ArrayInputs == {Array(s) : s \in SeqsUpTo(ListValues, MaxValues)} \cup NonArrays

\* the prices and the amounts of the trades
TradeValues ==
  {Num(IntDec(1)), Num(Norm(1, 15, 1)), Num(Zero), Num(IntDec(-1)), Str(<<"x">>)}
TradeInputs ==
  {Array(s) : s \in SeqsUpTo(TradeValues \X TradeValues, MaxTrades)} \cup NonArrays

\* the configurations the calculations are called with
CalcCfgInputs ==
  {NoCfg, Cfg(Undefined, Absent, "string"), Cfg(Undefined, Absent, "bignumber"),
   Cfg(Num(Zero), "ROUND_DOWN", Absent), Cfg(Num(IntDec(1)), "ROUND_HALF_EVEN", "string"),
   Cfg(Undefined, "ROUND_CEIL", "number"), Cfg(Num(IntDec(101)), Absent, Absent),
   Cfg(Num(Zero), Absent, Absent),
   Cfg(Num(Norm(1, 15, 1)), Absent, "string"), Cfg(Undefined, "invalid", Absent),
   Cfg(Undefined, Absent, "invalid")}

\* the values the calculations over two values are called with
PairValues ==
  {Num(Zero), Num(IntDec(1)), Num(Norm(1, 15, 1)), Num(IntDec(3)), Num(IntDec(-2)),
   Num(IntDec(100)), Num(IntDec(-100)), Num(IntDec(-150)), Num(Norm(-1, 125, 1)),
   Num(InfDec(1)), Num(InfDec(-1)), Num(NaNDec), Str(<<"5">>), Str(<<"x">>),
   Bn(Norm(1, 25, 1)), Other("object", <<"x">>), Num(Norm(1, 5, 1))}

\* the values prettifyValue is called with
PrettifyValues ==
  {Num(IntDec(1234567)), Num(Norm(1, 12345, 1)), Num(Norm(-1, 123456, 2)),
   Num(Norm(1, 1555, 3)), Num(Norm(-1, 0, 0)), Num(InfDec(1)), Num(NaNDec),
   Str(<<"5">>), Str(<<"x">>), Bn(Norm(1, 25, 1)), Other("symbol", <<"x">>)}
\* the formats: none, null, empty, those of the tests, and fields that hold
\* a Symbol
FormatInputs ==
  {NoFormat, [NoFormat EXCEPT !.given = "null"], EmptyFormat,
   [EmptyFormat EXCEPT !.prefix = Str(<<"$">>)],
   [EmptyFormat EXCEPT !.decimalSeparator = Str(<<",">>),
                       !.groupSeparator = Str(<<".">>),
                       !.suffix = Str(<<"B", "T", "C">>)],
   [EmptyFormat EXCEPT !.groupSize = Num(IntDec(2)),
                       !.secondaryGroupSize = Num(IntDec(3)),
                       !.groupSeparator = Other("null", <<"x">>)],
   [EmptyFormat EXCEPT !.fractionGroupSize = Num(IntDec(1)),
                       !.fractionGroupSeparator = Str(<<"_">>),
                       !.groupSize = Num(IntDec(0))],
   [EmptyFormat EXCEPT !.prefix = Other("symbol", <<"x">>)],
   [EmptyFormat EXCEPT !.groupSize = Other("symbol", <<"x">>)],
   [EmptyFormat EXCEPT !.decimalSeparator = Other("symbol", <<"x">>)]}
PrettifyInputs ==
  {PrettifyConfig(g, NoCfg, NoFormat) : g \in {"undefined", "null"}}
    \cup {PrettifyConfig("object", p, f) : p \in CalcCfgInputs, f \in FormatInputs}

Init ==
  /\ fn = "idle"
  /\ arg = Undefined
  /\ arg2 = Undefined
  /\ list = Array(<<>>)
  /\ listAfter = Array(<<>>)
  /\ exponentialAt = EXPONENTIAL_AT
  /\ cfg = NoCfg
  /\ prettyConfig = PrettifyConfig("undefined", NoCfg, NoFormat)
  /\ ret = NoRet
  /\ ret2 = NoRet

CallGetBigNumber ==
  /\ fn = "idle"
  /\ \E v \in Values :
       /\ fn' = "getBigNumber"
       /\ arg' = v
       /\ ret' = getBigNumber(v)
  /\ UNCHANGED <<prettyConfig, cfg, ret2, list, arg2, listAfter, exponentialAt>>

\* getBigNumber(getBigNumber(v))
CallGetBigNumberAgain ==
  /\ fn = "getBigNumber"
  /\ ret.ok
  /\ fn' = "getBigNumber.again"
  /\ ret2' = getBigNumber(ret.val)
  /\ UNCHANGED <<prettyConfig, arg, cfg, ret, list, arg2, listAfter, exponentialAt>>

\* getBigNumber(String(n)) after getBigNumber(n), n a number
CallGetBigNumberOfString ==
  /\ fn = "getBigNumber"
  /\ arg.t = "number"
  /\ fn' = "getBigNumber.string"
  /\ ret2' = getBigNumber(Str(bnToString(arg.d)))
  /\ UNCHANGED <<prettyConfig, arg, cfg, ret, list, arg2, listAfter, exponentialAt>>

\* getBigNumber(BigNumber(n)) after getBigNumber(n), n a number
CallGetBigNumberOfInstance ==
  /\ fn = "getBigNumber"
  /\ arg.t = "number"
  /\ fn' = "getBigNumber.instance"
  /\ ret2' = getBigNumber(Bn(BigNumber(arg).d))
  /\ UNCHANGED <<prettyConfig, arg, cfg, ret, list, arg2, listAfter, exponentialAt>>

CallValidateDecimalPlaces ==
  /\ fn = "idle"
  /\ \E dp \in DpInputs :
       /\ fn' = "validateDecimalPlaces"
       /\ arg' = dp
       /\ ret' = validateDecimalPlaces(dp)
  /\ UNCHANGED <<prettyConfig, cfg, ret2, list, arg2, listAfter, exponentialAt>>

CallBuildConfig ==
  /\ fn = "idle"
  /\ \E c \in CfgInputs :
       /\ fn' = "buildConfig"
       /\ cfg' = c
       /\ ret' = buildConfig(c)
  /\ UNCHANGED <<prettyConfig, arg, ret2, list, arg2, listAfter, exponentialAt>>

CallRoundBigNumber ==
  /\ fn = "idle"
  /\ \E bn \in BnInputs, dp \in DpInputs \ {Undefined},
        rm \in RoundingModeInputs \ {Absent} :
       /\ fn' = "roundBigNumber"
       /\ arg' = bn
       /\ cfg' = Cfg(dp, rm, Absent)
       /\ ret' = roundBigNumber(bn, dp, rm)
  /\ UNCHANGED <<prettyConfig, ret2, list, arg2, listAfter, exponentialAt>>

CallConvertBigNumberToType ==
  /\ fn = "idle"
  /\ \E bn \in BnInputs, ty \in TypeInputs \ {Absent} :
       /\ fn' = "convertBigNumberToType"
       /\ arg' = bn
       /\ cfg' = Cfg(Undefined, Absent, ty)
       /\ ret' = convertBigNumberToType(bn, ty)
  /\ UNCHANGED <<prettyConfig, ret2, list, arg2, listAfter, exponentialAt>>

CallGetRoundingMode ==
  /\ fn = "idle"
  /\ \E rm \in RoundingModeInputs \ {Absent} :
       /\ fn' = "getRoundingMode"
       /\ cfg' = Cfg(Undefined, rm, Absent)
       /\ ret' = getRoundingMode(rm)
  /\ UNCHANGED <<prettyConfig, arg, ret2, list, arg2, listAfter, exponentialAt>>

CallIsBigNumber ==
  /\ fn = "idle"
  /\ \E v \in Values :
       /\ fn' = "isBigNumber"
       /\ arg' = v
       /\ ret' = isBigNumber(v)
  /\ UNCHANGED <<prettyConfig, cfg, ret2, list, arg2, listAfter, exponentialAt>>

CallIsNumber ==
  /\ fn = "idle"
  /\ \E v \in Values :
       /\ fn' = "isNumber"
       /\ arg' = v
       /\ ret' = isNumber(v)
  /\ UNCHANGED <<prettyConfig, cfg, ret2, list, arg2, listAfter, exponentialAt>>

CallIsInteger ==
  /\ fn = "idle"
  /\ \E v \in Values :
       /\ fn' = "isInteger"
       /\ arg' = v
       /\ ret' = isInteger(v)
  /\ UNCHANGED <<prettyConfig, cfg, ret2, list, arg2, listAfter, exponentialAt>>

CallIsFloat ==
  /\ fn = "idle"
  /\ \E v \in Values :
       /\ fn' = "isFloat"
       /\ arg' = v
       /\ ret' = isFloat(v)
  /\ UNCHANGED <<prettyConfig, cfg, ret2, list, arg2, listAfter, exponentialAt>>

CallProcessValue ==
  /\ fn = "idle"
  /\ \E v \in Values, c \in CfgInputs :
       /\ fn' = "processValue"
       /\ arg' = v
       /\ cfg' = c
       /\ ret' = processValue(v, c)
  /\ UNCHANGED <<prettyConfig, ret2, list, arg2, listAfter, exponentialAt>>

\* processValue(processValue(value, {...config, type: 'string'}),
\* {...config, type: 'bignumber'}): the string is processed again
CallProcessValueAgain ==
  /\ fn = "processValue"
  /\ cfg.type = "string"
  /\ ret.ok
  /\ fn' = "processValue.again"
  /\ ret2' = processValue(ret.val, [cfg EXCEPT !.type = "bignumber"])
  /\ UNCHANGED <<prettyConfig, arg, arg2, list, cfg, ret, listAfter, exponentialAt>>

CallCalculateSum ==
  /\ fn = "idle"
  /\ \E a \in ArrayInputs, c \in CalcCfgInputs :
       /\ fn' = "calculateSum"
       /\ list' = a
       /\ listAfter' = a
       /\ cfg' = c
       /\ ret' = calculateSum(a, c)
  /\ UNCHANGED <<prettyConfig, arg, ret2, arg2, exponentialAt>>

CallCalculateMin ==
  /\ fn = "idle"
  /\ \E a \in ArrayInputs, c \in CalcCfgInputs :
       /\ fn' = "calculateMin"
       /\ list' = a
       /\ listAfter' = a
       /\ cfg' = c
       /\ ret' = calculateMin(a, c)
  /\ UNCHANGED <<prettyConfig, arg, ret2, arg2, exponentialAt>>

CallCalculateMax ==
  /\ fn = "idle"
  /\ \E a \in ArrayInputs, c \in CalcCfgInputs :
       /\ fn' = "calculateMax"
       /\ list' = a
       /\ listAfter' = a
       /\ cfg' = c
       /\ ret' = calculateMax(a, c)
  /\ UNCHANGED <<prettyConfig, arg, ret2, arg2, exponentialAt>>

CallCalculateMean ==
  /\ fn = "idle"
  /\ \E a \in ArrayInputs, c \in CalcCfgInputs :
       /\ fn' = "calculateMean"
       /\ list' = a
       /\ listAfter' = a
       /\ cfg' = c
       /\ ret' = calculateMean(a, c)
  /\ UNCHANGED <<prettyConfig, arg, ret2, arg2, exponentialAt>>

CallCalculateMedian ==
  /\ fn = "idle"
  /\ \E a \in ArrayInputs, c \in CalcCfgInputs :
       /\ fn' = "calculateMedian"
       /\ list' = a
       /\ listAfter' = IF validateValuesArray(a).ok /\ Len(a.items) > 0
                          THEN Array(medianArrays(a.items).values)
                        ELSE a
       /\ cfg' = c
       /\ ret' = calculateMedian(a, c)
  /\ UNCHANGED <<prettyConfig, arg, ret2, arg2, exponentialAt>>

CallCalculateMedianAgain ==
  /\ fn = "calculateMedian"
  /\ fn' = "calculateMedian.again"
  /\ ret2' = calculateMedian(listAfter, cfg)
  /\ UNCHANGED <<prettyConfig, arg, arg2, list, listAfter, exponentialAt, cfg, ret>>

CallCalculateWeightedEntry ==
  /\ fn = "idle"
  /\ \E a \in TradeInputs, c \in CalcCfgInputs :
       /\ fn' = "calculateWeightedEntry"
       /\ list' = a
       /\ listAfter' = a
       /\ cfg' = c
       /\ ret' = calculateWeightedEntry(a, c)
  /\ UNCHANGED <<prettyConfig, arg, ret2, arg2, exponentialAt>>

\* called with the configurations of the other calculations and with every
\* rounding mode at every number of decimal places up to MaxDp
CallCalculatePercentageChange ==
  /\ fn = "idle"
  /\ \E a \in PairValues, b \in PairValues,
        c \in CalcCfgInputs \cup {Cfg(Num(IntDec(dp)), rm, Absent) :
                                    dp \in 0..MaxDp, rm \in RoundingModeNames} :
       /\ fn' = "calculatePercentageChange"
       /\ arg' = a
       /\ arg2' = b
       /\ cfg' = c
       /\ ret' = calculatePercentageChange(a, b, c)
  /\ UNCHANGED <<prettyConfig, list, ret2, listAfter, exponentialAt>>

CallAdjustByPercentage ==
  /\ fn = "idle"
  /\ \E a \in PairValues, b \in PairValues, c \in CalcCfgInputs :
       /\ fn' = "adjustByPercentage"
       /\ arg' = a
       /\ arg2' = b
       /\ cfg' = c
       /\ ret' = adjustByPercentage(a, b, c)
  /\ UNCHANGED <<prettyConfig, list, ret2, listAfter, exponentialAt>>

CallCalculatePercentageRepresentation ==
  /\ fn = "idle"
  /\ \E a \in PairValues, b \in PairValues, c \in CalcCfgInputs :
       /\ fn' = "calculatePercentageRepresentation"
       /\ arg' = a
       /\ arg2' = b
       /\ cfg' = c
       /\ ret' = calculatePercentageRepresentation(a, b, c)
  /\ UNCHANGED <<prettyConfig, list, ret2, listAfter, exponentialAt>>

CallCalculateExchange ==
  /\ fn = "idle"
  /\ \E a \in PairValues, b \in PairValues, c \in CalcCfgInputs :
       /\ fn' = "calculateExchange"
       /\ arg' = a
       /\ arg2' = b
       /\ cfg' = c
       /\ ret' = calculateExchange(a, b, c)
  /\ UNCHANGED <<prettyConfig, list, ret2, listAfter, exponentialAt>>

CallCalculateExchangeFee ==
  /\ fn = "idle"
  /\ \E a \in PairValues, b \in PairValues, c \in CalcCfgInputs :
       /\ fn' = "calculateExchangeFee"
       /\ arg' = a
       /\ arg2' = b
       /\ cfg' = c
       /\ ret' = calculateExchangeFee(a, b, c)
  /\ UNCHANGED <<prettyConfig, list, ret2, listAfter, exponentialAt>>

\* the caller drops the outcome; the library keeps nothing between calls
CallPrettifyValue ==
  /\ fn = "idle"
  /\ \E v \in PrettifyValues, c \in PrettifyInputs :
       /\ fn' = "prettifyValue"
       /\ arg' = v
       /\ prettyConfig' = c
       /\ cfg' = c.processing
       /\ ret' = prettifyValue(v, c)
  /\ UNCHANGED <<list, arg2, ret2, listAfter, exponentialAt>>

Return ==
  /\ fn # "idle"
  /\ fn' = "idle"
  /\ arg' = Undefined
  /\ arg2' = Undefined
  /\ list' = Array(<<>>)
  /\ listAfter' = Array(<<>>)
  /\ UNCHANGED exponentialAt
  /\ cfg' = NoCfg
  /\ prettyConfig' = PrettifyConfig("undefined", NoCfg, NoFormat)
  /\ ret' = NoRet
  /\ ret2' = NoRet

Next ==
  \/ CallGetBigNumber
  \/ CallGetBigNumberAgain
  \/ CallGetBigNumberOfString
  \/ CallGetBigNumberOfInstance
  \/ CallValidateDecimalPlaces
  \/ CallBuildConfig
  \/ CallRoundBigNumber
  \/ CallConvertBigNumberToType
  \/ CallGetRoundingMode
  \/ CallIsBigNumber
  \/ CallIsNumber
  \/ CallIsInteger
  \/ CallIsFloat
  \/ CallProcessValue
  \/ CallProcessValueAgain
  \/ CallCalculateSum
  \/ CallCalculateMin
  \/ CallCalculateMax
  \/ CallCalculateMean
  \/ CallCalculateMedian
  \/ CallCalculateMedianAgain
  \/ CallCalculateWeightedEntry
  \/ CallCalculatePercentageChange
  \/ CallAdjustByPercentage
  \/ CallCalculatePercentageRepresentation
  \/ CallCalculateExchange
  \/ CallCalculateExchangeFee
  \/ CallPrettifyValue
  \/ Return

Spec == Init /\ [][Next]_vars

(***************************************************************************)
(* Properties                                                              *)
(***************************************************************************)
\* a number of decimal places as the specification admits it: an
\* integer-valued number from 0 to 100
ValidDecimalPlaces(v) ==
  /\ v.t = "number"
  /\ v.d.cls = "fin"
  /\ v.d.fd = 0
  /\ isLessThanOrEqualTo(Zero, v.d)
  /\ isLessThanOrEqualTo(v.d, Hundred)

\* the fields a call resolves to
ResolvedRoundingMode(c) ==
  IF c.roundingMode = Absent THEN "ROUND_HALF_UP" ELSE c.roundingMode
ResolvedType(c) == IF c.type = Absent THEN "number" ELSE c.type
ResolvedDecimalPlaces(c) ==
  IF CeilOrFloor(ResolvedRoundingMode(c)) THEN Num(Zero)
  ELSE IF c.decimalPlaces = Undefined THEN Num(IntDec(2))
  ELSE c.decimalPlaces

Raised(r, code) == ~r.ok /\ ErrKind(r.err) = code

\* C1: processValue raises the earliest error of its pipeline: an invalid
\* number of decimal places raises INVALID_DECIMAL_PLACES, else an invalid
\* value INVALID_VALUE, else an invalid rounding mode INVALID_ROUNDING_MODE,
\* else an invalid type INVALID_TYPE, and a call with no invalid input
\* returns a value.
C1_ErrorOrder ==
  fn = "processValue" =>
    IF ~ValidDecimalPlaces(ResolvedDecimalPlaces(cfg))
      THEN Raised(ret, "INVALID_DECIMAL_PLACES")
    ELSE IF ~getBigNumber(arg).ok THEN Raised(ret, "INVALID_VALUE")
    ELSE IF ResolvedRoundingMode(cfg) \notin RoundingModeNames
      THEN Raised(ret, "INVALID_ROUNDING_MODE")
    ELSE IF ResolvedType(cfg) \notin Types THEN Raised(ret, "INVALID_TYPE")
    ELSE ret.ok

\* C1, the failing call: processValue(1, {decimalPlaces: 1.5}) ends in an
\* error of the engine that carries no code
C1_Failing ==
  /\ fn = "processValue"
  /\ arg = Num(IntDec(1))
  /\ cfg = Cfg(Num(Norm(1, 15, 1)), Absent, Absent)
  /\ ~ret.ok
  /\ ~isEncodedError(ret.err)

DefaultConfig ==
  [decimalPlaces |-> Num(IntDec(2)), roundingMode |-> "ROUND_HALF_UP",
   type |-> "number"]

C4_IntegerInRange ==
  fn = "validateDecimalPlaces" =>
    IF ValidDecimalPlaces(arg) THEN ret = Void
    ELSE Raised(ret, "INVALID_DECIMAL_PLACES")

\* C4, the failing call: validateDecimalPlaces(1.5) returns
C4_Failing ==
  /\ fn = "validateDecimalPlaces"
  /\ arg = Num(Norm(1, 15, 1))
  /\ ret.ok

\* what the engine cannot turn into a number: a value whose text does not
\* render, a NaN, a text that is not numeric, an instance that holds NaN
EvaluatesToNaN(v) ==
  \/ StringThrows(v)
  \/ v.t = "forged"
  \/ v.t \in {"number", "bignumber"} /\ v.d.cls = "nan"
  \/ v.t \notin {"number", "bignumber"} /\ ParseString(v.s).cls = "nan"

\* C5: getBigNumber returns a decimal that is not NaN or raises INVALID_VALUE,
\* which it does for every input that evaluates to NaN or cannot be parsed;
\* the error carries the INVALID_VALUE code exactly once.
C5_NeverNaN ==
  fn = "getBigNumber" =>
    /\ ret.ok => ret.val.t = "bignumber" /\ ret.val.d.cls # "nan"
    /\ ~ret.ok => ret.err.codes = <<"INVALID_VALUE">>
    /\ EvaluatesToNaN(arg) => ~ret.ok

C5_Witness ==
  /\ fn = "getBigNumber"
  /\ arg = Bn(NaNDec)
  /\ ~ret.ok
  /\ ret.err.codes = <<"INVALID_VALUE">>

\* C6: getBigNumber applied to its own result returns that result, and a
\* number, the text String() renders for it and an instance built from it
\* yield numerically equal decimals (or are all rejected).
C6_Idempotent ==
  /\ fn = "getBigNumber" /\ arg.t = "bignumber" /\ ret.ok => ret.val = arg
  /\ fn = "getBigNumber.again" =>
       ret2.ok /\ ret2.val = ret.val /\ isEqualTo(ret2.val.d, ret.val.d)
  /\ fn \in {"getBigNumber.string", "getBigNumber.instance"} =>
       /\ ret2.ok <=> ret.ok
       /\ ret.ok => isEqualTo(ret2.val.d, ret.val.d) /\ isEqualTo(ret.val.d, arg.d)

C6_Witness ==
  /\ fn = "getBigNumber.string"
  /\ arg = Num(Norm(-1, 15, 1))
  /\ ret2 = Ok(Bn(Norm(-1, 15, 1)))
  /\ ret = ret2

\* C7: the nine rounding-mode names map to the codes 0..8 in the order
\* ROUND_UP, ROUND_DOWN, ROUND_CEIL, ROUND_FLOOR, ROUND_HALF_UP,
\* ROUND_HALF_DOWN, ROUND_HALF_EVEN, ROUND_HALF_CEIL, ROUND_HALF_FLOOR, no two
\* names share a code, and every other name makes the mapping and the
\* rounding raise INVALID_ROUNDING_MODE.
C7_RoundingModeMapping ==
  LET codes == [ROUND_UP |-> 0, ROUND_DOWN |-> 1, ROUND_CEIL |-> 2,
                ROUND_FLOOR |-> 3, ROUND_HALF_UP |-> 4, ROUND_HALF_DOWN |-> 5,
                ROUND_HALF_EVEN |-> 6, ROUND_HALF_CEIL |-> 7,
                ROUND_HALF_FLOOR |-> 8]
  IN  /\ ROUNDING_MODES = codes
      /\ fn = "getRoundingMode" =>
           IF cfg.roundingMode \in DOMAIN codes
             THEN ret = Ok(codes[cfg.roundingMode])
           ELSE Raised(ret, "INVALID_ROUNDING_MODE")
      /\ fn = "getRoundingMode" /\ ret.ok =>
           \A other \in RoundingModeNames \ {cfg.roundingMode} :
             getRoundingMode(other).val # ret.val
      /\ fn \in {"roundBigNumber", "processValue"}
           /\ ResolvedRoundingMode(cfg) \notin DOMAIN codes => ~ret.ok
      /\ fn = "roundBigNumber" /\ cfg.roundingMode \notin DOMAIN codes =>
           Raised(ret, "INVALID_ROUNDING_MODE")

C7_Witness ==
  /\ fn = "roundBigNumber"
  /\ cfg.roundingMode = "invalid"
  /\ cfg.decimalPlaces = Num(IntDec(2))
  /\ arg = Bn(Norm(1, 15, 1))
  /\ Raised(ret, "INVALID_ROUNDING_MODE")

\* C8: the conversion returns the text of the decimal for 'string', the
\* number of the same value for 'number' and the decimal itself for
\* 'bignumber'; any other type raises INVALID_TYPE and returns nothing.
C8_OutputConversion ==
  fn = "convertBigNumberToType" =>
    CASE cfg.type = "string" ->
           /\ ret.ok /\ ret.val.t = "string"
           /\ ret.val.s = bnToString(arg.d)
           /\ LET back == ParseString(ret.val.s)
              IN  IF arg.d.cls = "nan" THEN back.cls = "nan"
                  ELSE isEqualTo(back, arg.d)
      [] cfg.type = "number" ->
           ret.ok /\ ret.val.t = "number" /\ ret.val.d = arg.d
      [] cfg.type = "bignumber" -> ret = Ok(arg)
      [] OTHER -> Raised(ret, "INVALID_TYPE") /\ ret.val = Undefined

C8_Witness ==
  /\ fn = "convertBigNumberToType"
  /\ cfg.type = "string"
  /\ arg = Bn(Norm(-1, 15, 1))
  /\ ret = Ok(Str(<<"-", "1", ".", "5">>))

\* C9: isBigNumber, isNumber, isInteger and isFloat return a boolean for
\* every input; isNumber is true exactly when getBigNumber succeeds, and
\* isInteger and isFloat are false whenever getBigNumber fails.
C9_PredicatesNeverThrow ==
  fn \in {"isBigNumber", "isNumber", "isInteger", "isFloat"} =>
    /\ ret.ok
    /\ ret.val \in {Bool(TRUE), Bool(FALSE)}
    /\ fn = "isNumber" => ret.val = Bool(getBigNumber(arg).ok)
    /\ fn \in {"isInteger", "isFloat"} /\ ~getBigNumber(arg).ok =>
         ret.val = Bool(FALSE)

C9_Witness ==
  /\ fn = "isFloat"
  /\ arg = Other("nullproto", <<>>)
  /\ ~getBigNumber(arg).ok
  /\ ret = Ok(Bool(FALSE))

Calculations ==
  {"calculateSum", "calculateMin", "calculateMax", "calculateMean",
   "calculateMedian", "calculateWeightedEntry"}

\* C10: for an empty array every calculation returns what processValue
\* returns for 0 and the configuration: 0 with no configuration, the zero in
\* the requested type with a valid one, and INVALID_DECIMAL_PLACES, the error
\* of the configuration, with an invalid one.
C10_EmptyArrayIsZero ==
  fn \in Calculations /\ list = Array(<<>>) =>
    /\ ret = processValue(Num(IntDec(0)), cfg)
    /\ cfg = NoCfg => ret = Ok(Num(IntDec(0)))
    /\ ValidDecimalPlaces(ResolvedDecimalPlaces(cfg))
         /\ ResolvedRoundingMode(cfg) \in RoundingModeNames =>
         CASE ResolvedType(cfg) = "number" -> ret = Ok(Num(IntDec(0)))
           [] ResolvedType(cfg) = "string" -> ret = Ok(Str(<<"0">>))
           [] ResolvedType(cfg) = "bignumber" -> ret = Ok(Bn(IntDec(0)))
           [] OTHER -> Raised(ret, "INVALID_TYPE")
    /\ ~ValidDecimalPlaces(ResolvedDecimalPlaces(cfg)) =>
         Raised(ret, "INVALID_DECIMAL_PLACES")

\* C10, the failing call: calculateSum([], {decimalPlaces: 1.5, type:
\* 'string'}) ends in an error of the engine that carries no code
C10_Failing ==
  /\ fn = "calculateSum"
  /\ list = Array(<<>>)
  /\ listAfter = Array(<<>>)
  /\ exponentialAt = EXPONENTIAL_AT
  /\ cfg = Cfg(Num(Norm(1, 15, 1)), Absent, "string")
  /\ ~ret.ok
  /\ ~isEncodedError(ret.err)

\* C11: every calculation over an array raises INVALID_VALUES_ARRAY whenever
\* its first argument is not an array, whatever the configuration is.
C11_NotAnArray ==
  fn \in Calculations /\ ~list.isArray => Raised(ret, "INVALID_VALUES_ARRAY")

\* C11, the failing call: calculateSum(Symbol('x')) ends in the TypeError of
\* the template literal that builds the message, which carries no code
C11_Failing ==
  /\ fn = "calculateSum"
  /\ list = NotArray(Other("symbol", <<"x">>))
  /\ ~ret.ok
  /\ ~isEncodedError(ret.err)

\* the decimals of the two values of a call, both accepted by getBigNumber
BothValid == getBigNumber(arg).ok /\ getBigNumber(arg2).ok
First == getBigNumber(arg).val.d
Second == getBigNumber(arg2).val.d

\* C12: calculatePercentageChange raises NEGATIVE_VALUE_NOT_ALLOWED when
\* oldValue <= 0; otherwise it returns processValue of the change, which is
\* (newValue - oldValue) / oldValue * 100 for an increase,
\* -((oldValue - newValue) / oldValue * 100) for a decrease to a positive
\* value, -100 when newValue <= 0 and 0 when the two are equal.
C12_PercentageChange ==
  fn = "calculatePercentageChange" /\ BothValid =>
    LET o == First
        n == Second
        change ==
          IF isGreaterThan(n, o)
            THEN bnTimes(bnDividedBy(bnMinus(n, o), o), IntDec(100))
          ELSE IF isGreaterThan(n, Zero) /\ isLessThan(n, o)
            THEN bnNegated(bnTimes(bnDividedBy(bnMinus(o, n), o), IntDec(100)))
          ELSE IF isLessThanOrEqualTo(n, Zero) THEN IntDec(-100)
          ELSE IntDec(0)
    IN  IF isLessThanOrEqualTo(o, Zero)
          THEN Raised(ret, "NEGATIVE_VALUE_NOT_ALLOWED")
        ELSE /\ ret = processValue(Bn(change), cfg)
             /\ isEqualTo(n, o) => ret = processValue(Num(IntDec(0)), cfg)

C12_Witness ==
  /\ fn = "calculatePercentageChange"
  /\ arg = Num(IntDec(3))
  /\ arg2 = Num(IntDec(-2))
  /\ cfg = NoCfg
  /\ ret = Ok(Num(IntDec(-100)))

\* C13: adjustByPercentage raises NEGATIVE_VALUE_NOT_ALLOWED when value <= 0;
\* otherwise it returns processValue of value * (1 + percentage / 100) for a
\* positive percentage, of value * (1 - |percentage| / 100) for a percentage
\* between -100 and 0, of 0 for a percentage <= -100 and of value for 0.
C13_AdjustByPercentage ==
  fn = "adjustByPercentage" /\ BothValid =>
    LET x == First
        pc == Second
        adjusted ==
          IF isGreaterThan(pc, Zero)
            THEN bnTimes(x, bnPlus(IntDec(1), bnDividedBy(pc, IntDec(100))))
          ELSE IF isLessThan(pc, Zero) /\ isGreaterThan(pc, IntDec(-100))
            THEN bnTimes(x, bnMinus(IntDec(1),
                                    bnDividedBy(bnNegated(pc), IntDec(100))))
          ELSE IF isLessThanOrEqualTo(pc, IntDec(-100)) THEN IntDec(0)
          ELSE x
    IN  IF isLessThanOrEqualTo(x, Zero)
          THEN Raised(ret, "NEGATIVE_VALUE_NOT_ALLOWED")
        ELSE ret = processValue(Bn(adjusted), cfg)

C13_Witness ==
  /\ fn = "adjustByPercentage"
  /\ arg = Bn(Norm(1, 25, 1))
  /\ arg2 = Num(Norm(-1, 125, 1))
  /\ cfg = NoCfg
  /\ ret = Ok(Num(Norm(1, 219, 2)))

\* C14: calculatePercentageRepresentation raises NEGATIVE_VALUE_NOT_ALLOWED
\* when value <= 0 or total <= 0; otherwise it returns processValue of
\* value * 100 / total, which is above 100 when value is above total.
C14_PercentageRepresentation ==
  fn = "calculatePercentageRepresentation" /\ BothValid =>
    IF isLessThanOrEqualTo(First, Zero) \/ isLessThanOrEqualTo(Second, Zero)
      THEN Raised(ret, "NEGATIVE_VALUE_NOT_ALLOWED")
    ELSE LET r == bnDividedBy(bnTimes(First, IntDec(100)), Second)
         IN  /\ ret = processValue(Bn(r), cfg)
             /\ isGreaterThan(First, Second) /\ Second.cls = "fin" =>
                  isGreaterThan(r, IntDec(100))

C14_Witness ==
  /\ fn = "calculatePercentageRepresentation"
  /\ arg = Num(IntDec(3))
  /\ arg2 = Num(Norm(1, 15, 1))
  /\ cfg = NoCfg
  /\ ret = Ok(Num(IntDec(200)))

\* C15: calculateExchange raises NEGATIVE_VALUE_NOT_ALLOWED when value <= 0
\* or rate <= 0; otherwise it returns processValue of value / rate.
C15_Exchange ==
  fn = "calculateExchange" /\ BothValid =>
    IF isLessThanOrEqualTo(First, Zero) \/ isLessThanOrEqualTo(Second, Zero)
      THEN Raised(ret, "NEGATIVE_VALUE_NOT_ALLOWED")
    ELSE ret = processValue(Bn(bnDividedBy(First, Second)), cfg)

C15_Witness ==
  /\ fn = "calculateExchange"
  /\ arg = Num(IntDec(1))
  /\ arg2 = Bn(Norm(1, 25, 1))
  /\ cfg = Cfg(Undefined, Absent, "string")
  /\ ret = Ok(Str(<<"0", ".", "4">>))

RECURSIVE SumOf(_)
SumOf(s) == IF Len(s) = 1 THEN s[1] ELSE bnPlus(s[1], SumOf(Tail(s)))

\* the orders a sequence can be given in
Orders(s) ==
  LET n == Len(s)
  IN  {[i \in 1..n |-> s[p[i]]] :
         p \in {q \in [1..n -> 1..n] : \A i, j \in 1..n : q[i] = q[j] => i = j}}

\* two outcomes that a caller cannot tell apart: the same error code, or
\* values of the same type that are equal (numerically, for numbers)
SameOutcome(a, b) ==
  IF ~a.ok \/ ~b.ok THEN ~a.ok /\ ~b.ok /\ a.err.codes = b.err.codes
  ELSE /\ a.val.t = b.val.t
       /\ IF a.val.t = "string" THEN a.val.s = b.val.s
          ELSE isEqualTo(a.val.d, b.val.d)

\* C17: for a non-empty array of [price, amount] trades with valid prices,
\* calculateWeightedEntry returns processValue of S / A, S the exact sum of
\* price * amount and A the exact sum of the amounts, and the trades give
\* the same result in every order.
C17_WeightedEntry ==
  fn = "calculateWeightedEntry" /\ list.isArray /\ Len(list.items) > 0 =>
    LET trades == list.items
        n == Len(trades)
    IN  /\ (\A i \in 1..n : getBigNumber(trades[i][1]).ok) =>
             LET S == SumOf([i \in 1..n |->
                               bnTimes(BigNumber(trades[i][1]).d,
                                       BigNumber(trades[i][2]).d)])
                 A == SumOf([i \in 1..n |-> BigNumber(trades[i][2]).d])
             IN  ret = processValue(Bn(bnDividedBy(S, A)), cfg)
        /\ \A other \in Orders(trades) :
             SameOutcome(calculateWeightedEntry(Array(other), cfg), ret)

C17_Witness ==
  /\ fn = "calculateWeightedEntry"
  /\ list = Array(<< <<Num(IntDec(1)), Num(Norm(1, 15, 1))>>,
                     <<Num(Norm(1, 15, 1)), Num(IntDec(1))>> >>)
  /\ cfg = NoCfg
  /\ ret = Ok(Num(Norm(1, 12, 1)))

\* a sequence of decimals in ascending order
Ascending(s) == \A i, j \in DOMAIN s : i < j => ~isGreaterThan(s[i], s[j])

\* C18: for a non-empty array of valid values, calculateMedian returns
\* processValue of the middle element of the values in ascending order when
\* their count is odd, and of the exact average of the two middle elements
\* when it is even; every permutation of the input gives the same result.
C18_Median ==
  fn = "calculateMedian" /\ list.isArray /\ Len(list.items) > 0 =>
    LET n == Len(list.items)
    IN  /\ (\A i \in 1..n : getBigNumber(list.items[i]).ok) =>
             \A o \in Orders([i \in 1..n |-> getBigNumber(list.items[i]).val.d]) :
               Ascending(o) =>
                 ret = processValue(
                         Bn(IF n % 2 = 1 THEN o[(n \div 2) + 1]
                            ELSE bnDividedBy(bnPlus(o[n \div 2], o[(n \div 2) + 1]),
                                             IntDec(2))), cfg)
        /\ \A other \in Orders(list.items) :
             SameOutcome(calculateMedian(Array(other), cfg), ret)

C18_Witness ==
  /\ fn = "calculateMedian"
  /\ list = Array(<<Str(<<"5">>), Num(IntDec(-2)), Num(IntDec(1))>>)
  /\ cfg = NoCfg
  /\ ret = Ok(Num(IntDec(1)))

\* C19: for a non-empty array, calculateMean returns processValue of the
\* exact sum of the values divided by their count: the sum is divided
\* unrounded and the configured rounding is applied once, to the quotient.
C19_Mean ==
  fn = "calculateMean" /\ list.isArray /\ Len(list.items) > 0
    /\ ~ConstructorThrows(list.items) =>
      ret = processValue(
              Bn(bnDividedBy(SumOf(Constructed(list.items)),
                             IntDec(Len(list.items)))), cfg)

\* a mean that differs from the rounded sum divided by the count
C19_Witness ==
  /\ fn = "calculateMean"
  /\ list = Array(<<Num(Norm(1, 15, 1)), Num(IntDec(1))>>)
  /\ cfg = Cfg(Num(Zero), Absent, Absent)
  /\ ret = Ok(Num(IntDec(1)))
  /\ calculateSum(list, cfg) = Ok(Num(IntDec(3)))
  /\ ~isEqualTo(ret.val.d,
                bnDividedBy(calculateSum(list, cfg).val.d, IntDec(Len(list.items))))

\* the representations of a decimal: a number, a string, an instance
Representations(d) == {Num(d), Str(bnToString(d)), Bn(d)}

\* C20: calculateSum returns processValue of the exact sum of the values,
\* rounded once at the end; the result is the same for every permutation of
\* the values and whichever of them is given as a number, as a numeric
\* string or as a decimal instance of the same value.
C20_Sum ==
  fn = "calculateSum" /\ list.isArray /\ Len(list.items) > 0
    /\ ~ConstructorThrows(list.items) =>
      LET items == list.items
      IN  /\ ret = processValue(Bn(SumOf(Constructed(items))), cfg)
          /\ \A other \in Orders(items) :
               SameOutcome(calculateSum(Array(other), cfg), ret)
          /\ \A i \in DOMAIN items :
               \A r \in Representations(BigNumber(items[i]).d) :
                 SameOutcome(calculateSum(Array([items EXCEPT ![i] = r]), cfg), ret)

C20_Witness ==
  /\ fn = "calculateSum"
  /\ list = Array(<<Num(IntDec(1)), Str(<<"5">>), Bn(Norm(1, 25, 1))>>)
  /\ cfg = NoCfg
  /\ ret = Ok(Num(Norm(1, 85, 1)))

\* the decimal an output denotes, whatever its type
OutputDec(v) == IF v.t = "string" THEN ParseString(v.s) ELSE v.d

\* C21: for a non-empty array of valid values, calculateMin returns
\* processValue of an element that no element is less than, calculateMax
\* of an element that no element is greater than, the elements compared as
\* decimals whatever their types; the minimum is never greater than the
\* maximum, under every configuration.
C21_MinMax ==
  fn \in {"calculateMin", "calculateMax"} /\ list.isArray /\ Len(list.items) > 0
    /\ (\A i \in DOMAIN list.items : getBigNumber(list.items[i]).ok) =>
      LET ds == Constructed(list.items)
          Least(i) == \A j \in DOMAIN ds : isLessThanOrEqualTo(ds[i], ds[j])
          Greatest(i) == \A j \in DOMAIN ds : isLessThanOrEqualTo(ds[j], ds[i])
          Ordered(min, max) ==
            /\ min.ok <=> max.ok
            /\ min.ok => isLessThanOrEqualTo(OutputDec(min.val), OutputDec(max.val))
      IN  /\ fn = "calculateMin" =>
               \E i \in DOMAIN ds : Least(i) /\ ret = processValue(Bn(ds[i]), cfg)
          /\ fn = "calculateMax" =>
               \E i \in DOMAIN ds : Greatest(i) /\ ret = processValue(Bn(ds[i]), cfg)
          /\ Ordered(calculateMin(list, cfg), calculateMax(list, cfg))

C21_Witness ==
  /\ fn = "calculateMin"
  /\ list = Array(<<Str(<<"5">>), Num(IntDec(-2)), Bn(Norm(1, 25, 1))>>)
  /\ cfg = NoCfg
  /\ ret = Ok(Num(IntDec(-2)))
  /\ calculateMax(list, cfg) = Ok(Num(IntDec(5)))

C24_PrettifyErrors ==
  fn = "prettifyValue" /\ ~ret.ok =>
    LET Settled(p) ==
          IF prettyConfig.given # "null" /\ ~p.ok /\ isEncodedError(p.err)
            THEN ret = p /\ ErrKind(p.err) # "INVALID_BIGNUMBER_FORMAT"
          ELSE ret.err.codes = <<"INVALID_BIGNUMBER_FORMAT">>
    IN  /\ ErrKind(ret.err) \in
               {"INVALID_VALUE", "INVALID_DECIMAL_PLACES", "INVALID_ROUNDING_MODE",
                "INVALID_BIGNUMBER_FORMAT"}
        /\ Settled(processValue(arg, [prettyConfig.processing EXCEPT
                                        !.kind = "object", !.type = "bignumber"]))

C24_Witness ==
  /\ fn = "prettifyValue"
  /\ arg = Num(IntDec(1234567))
  /\ prettyConfig = PrettifyConfig("object", NoCfg,
                                   [EmptyFormat EXCEPT !.groupSize = Other("symbol", <<"x">>)])
  /\ Raised(ret, "INVALID_BIGNUMBER_FORMAT")
  /\ ret.err.msg = "Cannot convert a Symbol value to a number"

\* C23: processing the string that processValue returned, with the same
\* configuration and the type 'bignumber', gives a decimal numerically equal
\* to the one processValue returns for the value itself with that type; a
\* valid value with valid decimal places and rounding mode gives a string.
C23_RoundTrip ==
  /\ fn = "processValue" /\ cfg.type = "string" /\ getBigNumber(arg).ok
       /\ ValidDecimalPlaces(ResolvedDecimalPlaces(cfg))
       /\ cfg.roundingMode \in RoundingModeNames \cup {Absent}
       => ret.ok /\ ret.val.t = "string"
  /\ fn = "processValue.again" =>
       LET Same(direct) ==
             /\ direct.ok /\ ret2.ok
             /\ ret2.val.t = "bignumber"
             /\ isEqualTo(ret2.val.d, direct.val.d)
             /\ processValue(ret2.val, cfg) = ret
       IN  Same(processValue(arg, [cfg EXCEPT !.type = "bignumber"]))

C23_Witness ==
  /\ fn = "processValue.again"
  /\ arg = Num(Norm(1, 15, 1))
  /\ cfg = Cfg(Num(Zero), "ROUND_HALF_EVEN", "string")
  /\ ret = Ok(Str(<<"2">>))
  /\ ret2 = Ok(Bn(IntDec(2)))

\* C25: the five calculations over two values construct both values first
\* (INVALID_VALUE if either is invalid), then check that they are positive
\* (NEGATIVE_VALUE_NOT_ALLOWED), and only then resolve the configuration: of
\* several invalid inputs the error raised is that of the earliest step.
C25_ValidationOrder ==
  fn \in {"calculatePercentageChange", "adjustByPercentage",
          "calculatePercentageRepresentation", "calculateExchange",
          "calculateExchangeFee"} =>
    LET secondChecked == fn \in {"calculatePercentageRepresentation", "calculateExchange",
                                 "calculateExchangeFee"}
        secondRejected ==
          IF fn = "calculateExchangeFee" THEN isLessThan(Second, Zero)
          ELSE isLessThanOrEqualTo(Second, Zero)
        Resolved(config) == ~config.ok => ret = config
    IN  IF ~BothValid THEN Raised(ret, "INVALID_VALUE")
        ELSE IF isLessThanOrEqualTo(First, Zero) \/ (secondChecked /\ secondRejected)
          THEN Raised(ret, "NEGATIVE_VALUE_NOT_ALLOWED")
        ELSE Resolved(buildConfig(cfg))

C25_Witness ==
  /\ fn = "calculatePercentageChange"
  /\ arg = Num(IntDec(-2))
  /\ arg2 = Num(IntDec(3))
  /\ cfg = Cfg(Num(IntDec(101)), Absent, Absent)
  /\ Raised(ret, "NEGATIVE_VALUE_NOT_ALLOWED")

C27_MessageAlwaysBuilt ==
  (fn = "getBigNumber" /\ ~ret.ok) =>
    LET Built(try) ==
          /\ Raised(ret, "INVALID_VALUE")
          /\ ret.err.shown = (IF TemplateThrows(arg) THEN "UNKNOWN" ELSE "VALUE")
          /\ ~isEncodedError(try.err) => ret.err.cause = try.err.msg
    IN  Built(getBigNumberTry(arg))

C27_Witness ==
  /\ fn = "getBigNumber"
  /\ arg = Other("nullproto", <<>>)
  /\ Raised(ret, "INVALID_VALUE")
  /\ ret.err.shown = "UNKNOWN"
  /\ ret.err.cause = "Cannot convert object to primitive value"

C29_ChangeBounds ==
  (/\ fn = "calculatePercentageChange"
   /\ BothValid
   /\ ret.ok) =>
    LET Bounded(o, n, change) ==
          (o.cls = "fin" /\ n.cls = "fin" /\ isGreaterThan(o, Zero)) =>
            /\ isLessThanOrEqualTo(IntDec(-100), change)
            /\ isLessThanOrEqualTo(n, Zero) => isEqualTo(change, IntDec(-100))
            /\ isGreaterThan(n, o) => isLessThanOrEqualTo(Zero, change)
            /\ isLessThan(n, o) => isLessThanOrEqualTo(change, Zero)
    IN  Bounded(First, Second, OutputDec(ret.val))

C29_Witness ==
  /\ fn = "calculatePercentageChange"
  /\ arg = Num(IntDec(100))
  /\ arg2 = Num(Norm(1, 5, 1))
  /\ cfg = Cfg(Num(Zero), "ROUND_UP", Absent)
  /\ ret = Ok(Num(IntDec(-100)))

\* C30: calculateWeightedEntry never raises NEGATIVE_VALUE_NOT_ALLOWED: trades
\* whose prices and amounts are numbers, zero and negative ones included, and
\* whose amounts do not sum to zero are accepted; a non-empty list whose
\* amounts sum to zero never returns a finite number, and under a
\* configuration processValue accepts it ends in INVALID_VALUE or returns an
\* infinity.
C30_WeightedEntryUnchecked ==
  fn = "calculateWeightedEntry" =>
    /\ ~Raised(ret, "NEGATIVE_VALUE_NOT_ALLOWED")
    /\ (list.isArray /\ Len(list.items) > 0) =>
         LET trades == list.items
             Numbers == \A i \in DOMAIN trades :
                          getBigNumber(trades[i][1]).ok /\ getBigNumber(trades[i][2]).ok
             Total == SumOf([i \in DOMAIN trades |-> BigNumber(trades[i][2]).d])
             Accepts(plain) ==
               /\ (Numbers /\ ~isEqualTo(Total, Zero)) => (plain.ok => ret.ok)
               /\ isEqualTo(Total, Zero) =>
                    /\ ~(ret.ok /\ OutputDec(ret.val).cls = "fin")
                    /\ plain.ok => \/ Raised(ret, "INVALID_VALUE")
                                   \/ ret.ok /\ OutputDec(ret.val).cls = "inf"
         IN  Accepts(processValue(Num(Zero), cfg))

C30_Witness ==
  /\ fn = "calculateWeightedEntry"
  /\ list = Array(<< <<Num(IntDec(1)), Num(IntDec(1))>>,
                     <<Num(Norm(1, 15, 1)), Num(IntDec(-1))>> >>)
  /\ cfg = NoCfg
  /\ ret.ok
  /\ ret.val.d.cls = "inf"

====
